---------------------------- MODULE Spec2Model ----------------------------
(***************************************************************************)
(* Data-device session engine of the client toolkit: the wl_data_device    *)
(* dispatcher (src/src/data_device/data_device.rs), the wl_data_offer and  *)
(* wl_data_source dispatchers, receive(), and the application state of     *)
(* examples/data_device.rs (SimpleWindow), the handler implementation the  *)
(* repository ships.                                                       *)
(*                                                                         *)
(* One action per protocol event or readiness callback.  An action is the  *)
(* whole handler: the dispatcher's update of DataDeviceInner, the values   *)
(* dropped on the way (DnDDataOffer::drop), and the application callback   *)
(* with the requests it sends.  The variable log holds, for the last       *)
(* handler that ran, the event followed by the requests and callbacks in   *)
(* the order the code issues them.                                         *)
(***************************************************************************)
EXTENDS Integers, Sequences, FiniteSets, TLC

(***************************************************************************)
(* Bounds of the model.                                                    *)
(***************************************************************************)
MaxSeats == 2
MaxOffers == 2
MaxMimes == 2
MaxPipes == 2
MaxSources == 3
MaxDevices == 2
MaxBytes == 2
MaxMimeTypes == 2

\* DataDeviceInner::serial is a u32.  TLC's integers are 32-bit signed, so
\* the counter is modelled with a width of SerialBits bits.
SerialBits == 8

Seats == 1..MaxSeats
OfferIds == 1..MaxOffers
SourceIds == 1..MaxSources
\* serials of the key and button presses that make the application create a source
InputSerials == {31, 32}
\* The arguments the compositor sends with enter, <<serial, surface, x, y>>,
\* and with motion, <<time, x, y>>.  The two of a kind differ in every
\* field, x differs from y, and a motion never repeats an enter's position.
EnterInputs == {<<11, "S", 1, 2>>, <<12, "T", 3, 4>>}
MotionInputs == {<<21, 5, 6>>, <<22, 7, 8>>}
Mimes == {"text/plain", "image/png"}

(***************************************************************************)
(* Option<T>: None is the empty sequence, Some(v) the one-element one.     *)
(***************************************************************************)
None == <<>>
Some(v) == <<v>>
IsSome(opt) == opt # <<>>
Unwrap(opt) == opt[1]
OptionOf(S) == {None} \cup {Some(v) : v \in S}

VARIABLES
    manager,    \* DataDeviceManagerState::manager: "NotReady" or "Bound"
    data_devices, \* SimpleWindow::data_devices: the seats that have a data device
    inner,      \* seat -> DataDeviceInner of the seat's data device
    offers,     \* SimpleWindow::offers: Vec<(offer, serial, mime_types, contents, token)>
    copy_paste_sources, \* SimpleWindow::copy_paste_sources: Vec<CopyPasteSource>
    drag_sources,       \* SimpleWindow::drag_sources: Vec<(DragSource, bool)>
    nextSource, \* number of wl_data_source objects the client has created
    srcDestroys, \* source -> destroy requests issued on it so far
    sources,    \* read pipes registered with the event loop: {[token, offer]}
    nextToken,  \* number of registration tokens handed out by the event loop
    nextOffer,  \* number of wl_data_offer objects the compositor has created
    offerDev,   \* offer -> the seat whose device announced it
    destroys,   \* offer -> destroy requests issued on it so far
    aborted,    \* a handler panicked: the process is gone
    log,        \* the last handler: <<event, requests and callbacks in order>>
    hist,       \* seat -> what the compositor last sent (event history)
    offered,    \* offer -> the mime types of its offer events so far, in order
    seatDevices, \* seat -> number of wl_data_device objects created for it
    refused,    \* the operations that have returned an error so far
    advertised, \* offer -> the actions of its last source_actions event
    selSerial,  \* source -> the serial of the last set_selection made with it
    fds,        \* the open file descriptors of the client: <<pipe, "read" | "write">>
    pipes,      \* the pipes created so far, see NewPipe
    reading,    \* the read callback the dispatch thread is inside, if any
    srcOffers   \* source -> the mime types of the offer requests sent on it so far

\* the state of the program itself, without the bookkeeping of the model
progVars == <<manager, data_devices, inner, offers, sources, nextToken,
              copy_paste_sources, drag_sources, aborted>>
mgrVars == <<manager, data_devices, seatDevices, refused>>
srcVars == <<copy_paste_sources, drag_sources, nextSource, selSerial>>
devVars == <<inner, offers, sources, nextToken, nextOffer, offerDev, hist, offered,
            advertised>>
vars == <<manager, data_devices, inner, offers, sources, nextToken, nextOffer,
          offerDev, destroys, copy_paste_sources, drag_sources, nextSource,
          srcDestroys, aborted, log, hist, offered, seatDevices, refused,
          fds, pipes, selSerial, advertised, reading, srcOffers>>
\* descriptors, pipes and the read in progress, kept by the specifications of
\* the transfer channel
pipeVars == <<fds, pipes, reading>>

(***************************************************************************)
(* Protocol objects and items of the log.  A request names the object it   *)
(* is sent on, an event the object it arrives on, a callback the object    *)
(* its handler is given.                                                   *)
(***************************************************************************)
WlDataDevice(d) == <<"wl_data_device", d>>
WlDataOffer(o) == <<"wl_data_offer", o>>
WlDataSource(s) == <<"wl_data_source", s>>
ReadPipe(t) == <<"read_pipe", t>>
WlDataDeviceManager == <<"wl_data_device_manager", 1>>

Ev(op, obj, args) == [kind |-> "event", op |-> op, obj |-> obj, args |-> args]
Req(op, obj, args) == [kind |-> "request", op |-> op, obj |-> obj, args |-> args]
Cb(op, obj, args) == [kind |-> "callback", op |-> op, obj |-> obj, args |-> args]

Range(s) == {s[i] : i \in 1..Len(s)}
Requests(l) == SelectSeq(l, LAMBDA it : it.kind = "request")
Callbacks(l) == SelectSeq(l, LAMBDA it : it.kind = "callback")
IsDestroyOf(obj, it) == it.kind = "request" /\ it.op = "destroy" /\ it.obj = obj
DestroysIn(l, obj) == Cardinality({i \in 1..Len(l) : IsDestroyOf(obj, l[i])})
IsOfferOn(obj, it) == it.kind = "request" /\ it.op = "offer" /\ it.obj = obj
\* the mime types of the offer requests that l sends on obj, in order
OffersIn(l, obj) ==
    LET r == SelectSeq(l, LAMBDA it : IsOfferOn(obj, it))
    IN  [k \in 1..Len(r) |-> r[k].args[1]]

(***************************************************************************)
(* DataDeviceInner and DnDDataOffer.                                       *)
(***************************************************************************)
DataDeviceInnerDefault == [dnd_data_offer |-> None, selection |-> None, serial |-> 0]

DnDDataOffer(data_offer, serial, surface, x, y, time) ==
    [data_offer |-> data_offer, serial |-> serial, surface |-> surface,
     x |-> x, y |-> y, time |-> time]

\* the offer a device holds in its drag slot, as an Option
HeldDrag(in) ==
    IF IsSome(in.dnd_data_offer) THEN Unwrap(in.dnd_data_offer).data_offer ELSE None

\* a DnDDataOffer whose drop sends nothing
DropDnDNoDestroy(old) == <<>>

\* impl Drop for DnDDataOffer, applied to the Option<DnDDataOffer> that goes
\* out of scope: the requests the drop sends.
DropDnD(old) ==
    IF IsSome(old) /\ IsSome(Unwrap(old).data_offer)
    THEN <<Req("destroy", WlDataOffer(Unwrap(Unwrap(old).data_offer)), <<>>)>>
    ELSE <<>>


(***************************************************************************)
(* Dispatch<WlDataDevice>::event, one operator per arm of the match.  Each *)
(* takes the device's DataDeviceInner and the event's arguments and gives  *)
(* the new DataDeviceInner, the requests the arm itself sends (before the  *)
(* callback) and the application callback it invokes, if any.              *)
(***************************************************************************)
WrapU32(n) == n % (2 ^ SerialBits)

\* data_offer that reports the counter after the increment
DataOfferEventPreIncrement(dev, in, id) ==
    [inner |-> [in EXCEPT !.serial = WrapU32(in.serial + 1)],
     reqs |-> <<>>,
     cbs |-> <<Cb("data_offer", WlDataDevice(dev), <<id, WrapU32(in.serial + 1)>>)>>]

DataOfferEvent(dev, in, id) ==
    [inner |-> [in EXCEPT !.serial = WrapU32(in.serial + 1)],
     reqs |-> <<>>,
     cbs |-> <<Cb("data_offer", WlDataDevice(dev), <<id, in.serial>>)>>]

\* The DataOffer arm in a build with or without overflow checks: with them
\* (the dev profile) inner.serial += 1 panics at the largest u32, before the
\* callback runs; without them (the release profile) it wraps.
DataOfferEventBuilt(dev, in, id, overflow_checks) ==
    IF overflow_checks /\ in.serial + 1 >= 2 ^ SerialBits
    THEN [inner |-> in, reqs |-> <<>>, cbs |-> <<>>, panic |-> TRUE]
    ELSE LET r == DataOfferEvent(dev, in, id)
         IN  [inner |-> r.inner, reqs |-> r.reqs, cbs |-> r.cbs, panic |-> FALSE]

\* enter that keeps the timestamp of the state it replaces
EnterEventKeepsTime(dev, in, serial, surface, x, y, id) ==
    [inner |-> [in EXCEPT !.dnd_data_offer =
                    Some(DnDDataOffer(id, serial, surface, x, y,
                                      IF IsSome(in.dnd_data_offer)
                                      THEN Unwrap(in.dnd_data_offer).time
                                      ELSE None))],
     reqs |-> DropDnD(in.dnd_data_offer),
     cbs |-> <<Cb("enter", WlDataDevice(dev), <<serial, surface, x, y, id>>)>>]

\* enter that, given no offer, puts the offer of the selection into the state
EnterEventSharesSelection(dev, in, serial, surface, x, y, id) ==
    [inner |-> [in EXCEPT !.dnd_data_offer =
                    Some(DnDDataOffer(IF IsSome(id) THEN id ELSE in.selection,
                                      serial, surface, x, y, None))],
     reqs |-> DropDnD(in.dnd_data_offer),
     cbs |-> <<Cb("enter", WlDataDevice(dev), <<serial, surface, x, y, id>>)>>]

\* enter that installs the new state without dropping the one it replaces
EnterEventNoRelease(dev, in, serial, surface, x, y, id) ==
    [inner |-> [in EXCEPT !.dnd_data_offer =
                    Some(DnDDataOffer(id, serial, surface, x, y, None))],
     reqs |-> <<>>,
     cbs |-> <<Cb("enter", WlDataDevice(dev), <<serial, surface, x, y, id>>)>>]

EnterEvent(dev, in, serial, surface, x, y, id) ==
    [inner |-> [in EXCEPT !.dnd_data_offer =
                    Some(DnDDataOffer(id, serial, surface, x, y, None))],
     reqs |-> DropDnD(in.dnd_data_offer),
     cbs |-> <<Cb("enter", WlDataDevice(dev), <<serial, surface, x, y, id>>)>>]

\* leave that calls back only when it had a drag state to clear
LeaveEventSilent(dev, in) ==
    [inner |-> [in EXCEPT !.dnd_data_offer = None],
     reqs |-> DropDnD(in.dnd_data_offer),
     cbs |-> IF IsSome(in.dnd_data_offer)
             THEN <<Cb("leave", WlDataDevice(dev), <<>>)>>
             ELSE <<>>]

LeaveEvent(dev, in) ==
    [inner |-> [in EXCEPT !.dnd_data_offer = None],
     reqs |-> DropDnD(in.dnd_data_offer),
     cbs |-> <<Cb("leave", WlDataDevice(dev), <<>>)>>]

\* motion that stores the timestamp and not the position
MotionEventKeepsPosition(dev, in, new_time, new_x, new_y) ==
    IF IsSome(in.dnd_data_offer)
    THEN LET s == Unwrap(in.dnd_data_offer)
             t == [s EXCEPT !.time = Some(new_time)]
         IN  [inner |-> [in EXCEPT !.dnd_data_offer = Some(t)],
              reqs |-> <<>>,
              cbs |-> IF IsSome(s.data_offer)
                      THEN <<Cb("motion", WlDataDevice(dev),
                                <<new_time, new_x, new_y, Unwrap(s.data_offer)>>)>>
                      ELSE <<>>]
    ELSE [inner |-> in, reqs |-> <<>>, cbs |-> <<>>]

MotionEvent(dev, in, new_time, new_x, new_y) ==
    IF IsSome(in.dnd_data_offer)
    THEN LET s == Unwrap(in.dnd_data_offer)
             t == [s EXCEPT !.x = new_x, !.y = new_y, !.time = Some(new_time)]
         IN  [inner |-> [in EXCEPT !.dnd_data_offer = Some(t)],
              reqs |-> <<>>,
              cbs |-> IF IsSome(s.data_offer)
                      THEN <<Cb("motion", WlDataDevice(dev),
                                <<new_time, new_x, new_y, Unwrap(s.data_offer)>>)>>
                      ELSE <<>>]
    ELSE [inner |-> in, reqs |-> <<>>, cbs |-> <<>>]

\* drop that takes the state out of the slot (take() for as_ref())
DropEventTakes(dev, in) ==
    IF IsSome(in.dnd_data_offer) /\ IsSome(Unwrap(in.dnd_data_offer).data_offer)
    THEN LET s == Unwrap(in.dnd_data_offer)
         IN  [inner |-> [in EXCEPT !.dnd_data_offer = None],
              reqs |-> <<>>,
              cbs |-> <<Cb("drop_performed", WlDataDevice(dev),
                           <<Unwrap(s.data_offer), s.serial, s.surface, s.x, s.y,
                             s.time>>)>>]
    ELSE [inner |-> [in EXCEPT !.dnd_data_offer = None], reqs |-> <<>>, cbs |-> <<>>]

\* drop that hands the state over and forgets its timestamp
DropEventClearsTime(dev, in) ==
    IF IsSome(in.dnd_data_offer) /\ IsSome(Unwrap(in.dnd_data_offer).data_offer)
    THEN LET s == Unwrap(in.dnd_data_offer)
         IN  [inner |-> [in EXCEPT !.dnd_data_offer = Some([s EXCEPT !.time = None])],
              reqs |-> <<>>,
              cbs |-> <<Cb("drop_performed", WlDataDevice(dev),
                           <<Unwrap(s.data_offer), s.serial, s.surface, s.x, s.y,
                             s.time>>)>>]
    ELSE [inner |-> in, reqs |-> <<>>, cbs |-> <<>>]

DropEvent(dev, in) ==
    IF IsSome(in.dnd_data_offer) /\ IsSome(Unwrap(in.dnd_data_offer).data_offer)
    THEN LET s == Unwrap(in.dnd_data_offer)
         IN  [inner |-> in,
              reqs |-> <<>>,
              cbs |-> <<Cb("drop_performed", WlDataDevice(dev),
                           <<Unwrap(s.data_offer), s.serial, s.surface, s.x, s.y,
                             s.time>>)>>]
    ELSE [inner |-> in, reqs |-> <<>>, cbs |-> <<>>]

\* selection that destroys the previous offer only when it clears the slot
SelectionEventLeaksOld(dev, in, id) ==
    [inner |-> [in EXCEPT !.selection = id],
     reqs |-> IF IsSome(in.selection) /\ ~IsSome(id)
              THEN <<Req("destroy", WlDataOffer(Unwrap(in.selection)), <<>>)>>
              ELSE <<>>,
     cbs |-> <<Cb("selection", WlDataDevice(dev), <<id>>)>>]

\* selection whose clearing arm reads the slot without emptying it
\* (as_ref() for take())
SelectionEventNoTake(dev, in, id) ==
    [inner |-> [in EXCEPT !.selection = IF IsSome(id) THEN id ELSE in.selection],
     reqs |-> IF IsSome(in.selection)
              THEN <<Req("destroy", WlDataOffer(Unwrap(in.selection)), <<>>)>>
              ELSE <<>>,
     cbs |-> <<Cb("selection", WlDataDevice(dev), <<id>>)>>]

\* selection that also takes the drag state out of its slot
SelectionEventClearsDrag(dev, in, id) ==
    [inner |-> [in EXCEPT !.selection = id, !.dnd_data_offer = None],
     reqs |-> (IF IsSome(in.selection)
               THEN <<Req("destroy", WlDataOffer(Unwrap(in.selection)), <<>>)>>
               ELSE <<>>) \o DropDnD(in.dnd_data_offer),
     cbs |-> <<Cb("selection", WlDataDevice(dev), <<id>>)>>]

SelectionEvent(dev, in, id) ==
    [inner |-> [in EXCEPT !.selection = id],
     reqs |-> IF IsSome(in.selection)
              THEN <<Req("destroy", WlDataOffer(Unwrap(in.selection)), <<>>)>>
              ELSE <<>>,
     cbs |-> <<Cb("selection", WlDataDevice(dev), <<id>>)>>]

(***************************************************************************)
(* receive(offer, mime_type): pipe2, the receive request, close of the     *)
(* write end.  pipe_ok is whether pipe2 succeeded.                         *)
(***************************************************************************)
Receive(offer, mime_type, pipe_ok) ==
    [ok |-> pipe_ok,
     reqs |-> IF pipe_ok THEN <<Req("receive", WlDataOffer(offer), <<mime_type>>)>> ELSE <<>>]

DndCopy == {"copy"}
\* the action sets a source advertises with source_actions
ActionSets == {{"copy", "move"}, {"copy"}, {"move"}}

(***************************************************************************)
(* SimpleWindow, the application state of examples/data_device.rs.  An     *)
(* entry of offers is (offer, serial, mime_types, contents, token);        *)
(* contents is String::new() for as long as the entry is in the list and   *)
(* is left out.                                                            *)
(***************************************************************************)
OfferEntry(offer, serial, mime_types, token) ==
    [offer |-> offer, serial |-> serial, mime_types |-> mime_types, token |-> token]

\* offers.iter().position(|o| o.0 == offer): the first index, 0 for none
Position(offs, offer) ==
    IF \E i \in 1..Len(offs) : offs[i].offer = offer
    THEN CHOOSE i \in 1..Len(offs) :
            /\ offs[i].offer = offer
            /\ \A j \in 1..(i - 1) : offs[j].offer # offer
    ELSE 0

RemoveAt(s, i) == SubSeq(s, 1, i - 1) \o SubSeq(s, i + 1, Len(s))

\* DataDeviceHandler::data_offer
AppDataOffer(offs, offer, serial) ==
    [offers |-> Append(offs, OfferEntry(offer, serial, <<>>, None)), reqs |-> <<>>]

\* DataDeviceHandler::enter
AppEnter(offs, serial, id) ==
    LET i == IF IsSome(id) THEN Position(offs, Unwrap(id)) ELSE 0
    IN  IF i # 0
        THEN [offers |-> [offs EXCEPT ![i].serial = serial],
              reqs |-> [k \in 1..Len(offs[i].mime_types) |->
                           Req("accept", WlDataOffer(offs[i].offer),
                               <<serial, offs[i].mime_types[k]>>)]]
        ELSE IF IsSome(id)
             THEN [offers |-> Append(offs, OfferEntry(Unwrap(id), serial, <<>>, None)),
                   reqs |-> <<>>]
             ELSE [offers |-> offs, reqs |-> <<>>]

\* DataOfferHandler::offer
AppOffer(offs, offer, mime_type) ==
    LET i == Position(offs, offer)
    IN  IF i # 0
        THEN IF mime_type = "text/plain"
             THEN [offers |-> [offs EXCEPT ![i].mime_types = Append(@, mime_type)],
                   reqs |-> <<Req("accept", WlDataOffer(offer), <<offs[i].serial, mime_type>>)>>]
             ELSE [offers |-> offs, reqs |-> <<>>]
        ELSE [offers |-> Append(offs, OfferEntry(offer, 0, <<mime_type>>, None)),
              reqs |-> <<>>]

\* DataOfferHandler::source_actions; actions is None for WEnum::Unknown
AppSourceActions(offer, actions) ==
    IF IsSome(actions)
    THEN <<Req("set_actions", WlDataOffer(offer),
               <<Unwrap(actions), Unwrap(actions) \cap DndCopy>>)>>
    ELSE <<>>

\* DataOfferHandler::actions
AppActions(offer, actions) == <<>>

\* The body shared by DataDeviceHandler::selection and ::drop_performed: look
\* the offer up, receive its first mime type, register the read pipe with
\* the event loop and keep the registration token in the entry.
AppReceive(offs, srcs, ntok, id, pipe_ok, insert_ok) ==
    LET i == IF IsSome(id) THEN Position(offs, Unwrap(id)) ELSE 0
        same == [offers |-> offs, sources |-> srcs, nextToken |-> ntok, reqs |-> <<>>]
    IN  IF i = 0 \/ Len(offs[i].mime_types) = 0
        THEN same
        ELSE LET r == Receive(offs[i].offer, offs[i].mime_types[1], pipe_ok)
             IN  IF ~r.ok
                 THEN same
                 ELSE IF insert_ok
                      THEN [offers |-> [offs EXCEPT ![i].token = Some(ntok + 1)],
                            sources |-> srcs \cup {[token |-> ntok + 1,
                                                    offer |-> offs[i].offer]},
                            nextToken |-> ntok + 1,
                            reqs |-> r.reqs]
                      ELSE [same EXCEPT !.reqs = r.reqs]

\* DataDeviceHandler::selection
AppSelection(offs, srcs, ntok, id, pipe_ok, insert_ok) ==
    AppReceive(offs, srcs, ntok, id, pipe_ok, insert_ok)

\* DataDeviceHandler::drop_performed
AppDropPerformed(offs, srcs, ntok, offer, pipe_ok, insert_ok) ==
    AppReceive(offs, srcs, ntok, Some(offer), pipe_ok, insert_ok)

\* The closure given to insert_source, run when the pipe is readable.
\* read_ok is whether read_to_string returned Ok.
ReadCallback(offs, srcs, offer_clone, read_ok) ==
    LET i == Position(offs, offer_clone)
    IN  IF i = 0
        THEN [offers |-> offs, sources |-> srcs, reqs |-> <<>>, panic |-> TRUE]
        ELSE IF ~read_ok \/ ~IsSome(offs[i].token)
             THEN [offers |-> RemoveAt(offs, i), sources |-> srcs, reqs |-> <<>>,
                   panic |-> TRUE]
             ELSE [offers |-> RemoveAt(offs, i),
                   sources |-> {s \in srcs : s.token # Unwrap(offs[i].token)},
                   reqs |-> <<Req("finish", WlDataOffer(offer_clone), <<>>),
                              Req("destroy", WlDataOffer(offer_clone), <<>>)>>,
                   panic |-> FALSE]


(***************************************************************************)
(* DataDeviceManagerState: creation of sources.  id is the object id the   *)
(* new wl_data_source gets.                                                *)
(***************************************************************************)
CreateDataSourceWithData(mgr, id) ==
    IF mgr = "Bound"
    THEN [ok |-> TRUE,
          reqs |-> <<Req("create_data_source", WlDataDeviceManager, <<id>>)>>]
    ELSE [ok |-> FALSE, reqs |-> <<>>]

\* create_data_source that offers every mime type once, however often the
\* list names it
CreateDataSourceOnce(mgr, id, mime_types, dnd_actions) ==
    LET r == CreateDataSourceWithData(mgr, id)
        first == SelectSeq([k \in 1..Len(mime_types) |-> k],
                           LAMBDA k : \A j \in 1..(k - 1) : mime_types[j] # mime_types[k])
    IN  IF r.ok
        THEN [ok |-> TRUE,
              reqs |-> r.reqs
                       \o [k \in 1..Len(first) |->
                              Req("offer", WlDataSource(id), <<mime_types[first[k]]>>)]
                       \o (IF IsSome(dnd_actions)
                           THEN <<Req("set_actions", WlDataSource(id),
                                      <<Unwrap(dnd_actions)>>)>>
                           ELSE <<>>)]
        ELSE r

CreateDataSource(mgr, id, mime_types, dnd_actions) ==
    LET r == CreateDataSourceWithData(mgr, id)
    IN  IF r.ok
        THEN [ok |-> TRUE,
              reqs |-> r.reqs
                       \o [k \in 1..Len(mime_types) |->
                              Req("offer", WlDataSource(id), <<mime_types[k]>>)]
                       \o (IF IsSome(dnd_actions)
                           THEN <<Req("set_actions", WlDataSource(id),
                                      <<Unwrap(dnd_actions)>>)>>
                           ELSE <<>>)]
        ELSE r

CreateCopyPasteSource(mgr, id, mime_types) ==
    LET r == CreateDataSource(mgr, id, mime_types, None)
    IN  [ok |-> r.ok, reqs |-> r.reqs,
         value |-> IF r.ok THEN Some([inner |-> id, serial |-> None]) ELSE None]

CreateDragAndDropSource(mgr, id, mime_types, dnd_actions) ==
    LET r == CreateDataSource(mgr, id, mime_types, Some(dnd_actions))
    IN  [ok |-> r.ok, reqs |-> r.reqs,
         value |-> IF r.ok THEN Some([inner |-> id]) ELSE None]

\* CopyPasteSource::set_selection
SetSelection(src, device, serial) ==
    <<Req("set_selection", WlDataDevice(device), <<Some(src.inner), serial>>)>>

\* CopyPasteSource::unset_selection
UnsetSelection(src, device) ==
    IF IsSome(src.serial)
    THEN <<Req("set_selection", WlDataDevice(device), <<None, Unwrap(src.serial)>>)>>
    ELSE <<>>

\* DragSource::start_drag
StartDrag(src, device, origin, serial) ==
    <<Req("start_drag", WlDataDevice(device), <<Some(src.inner), origin, None, serial>>)>>

\* impl Drop for CopyPasteSource
DropCopyPasteSource(src) == <<Req("destroy", WlDataSource(src.inner), <<>>)>>

\* impl Drop for DragSource
DropDragSource(src) == <<Req("destroy", WlDataSource(src.inner), <<>>)>>

(***************************************************************************)
(* Dispatch<WlDataSource>::event.                                          *)
(***************************************************************************)
SourceCancelledEvent(source) ==
    [reqs |-> <<Req("destroy", WlDataSource(source), <<>>)>>,
     cbs |-> <<Cb("cancelled", WlDataSource(source), <<>>)>>]

SourceDndFinishedEvent(source) ==
    [reqs |-> <<>>,
     cbs |-> <<Cb("dnd_finished", WlDataSource(source), <<>>)>>]

(***************************************************************************)
(* SimpleWindow: the source side.                                          *)
(***************************************************************************)
\* copy_paste_sources.iter().position(|s| s.inner() == source), 0 for none
PositionSource(cps, source) ==
    IF \E i \in 1..Len(cps) : cps[i].inner = source
    THEN CHOOSE i \in 1..Len(cps) :
            /\ cps[i].inner = source
            /\ \A j \in 1..(i - 1) : cps[j].inner # source
    ELSE 0

\* press_key that keeps only the newest source: the earlier ones are dropped
AppPressKeyReplaces(mgr, cps, id, device, serial) ==
    LET r == CreateCopyPasteSource(mgr, id, <<"text/plain">>)
    IN  IF r.ok
        THEN [copy_paste_sources |-> <<Unwrap(r.value)>>,
              reqs |-> r.reqs \o SetSelection(Unwrap(r.value), device, serial)
                       \o [k \in 1..Len(cps) |-> DropCopyPasteSource(cps[k])[1]],
              panic |-> FALSE]
        ELSE [copy_paste_sources |-> cps, reqs |-> r.reqs, panic |-> TRUE]

\* KeyboardHandler::press_key with "c": create_copy_paste_source(..).unwrap(),
\* set_selection, push
AppPressKey(mgr, cps, id, device, serial) ==
    LET r == CreateCopyPasteSource(mgr, id, <<"text/plain">>)
    IN  IF r.ok
        THEN [copy_paste_sources |-> Append(cps, Unwrap(r.value)),
              reqs |-> r.reqs \o SetSelection(Unwrap(r.value), device, serial),
              panic |-> FALSE]
        ELSE [copy_paste_sources |-> cps, reqs |-> r.reqs, panic |-> TRUE]

\* PointerHandler::pointer_frame with a left button press:
\* create_drag_and_drop_source(..).unwrap(), start_drag, push((source, false))
AppPointerPress(mgr, drs, id, device, surface, serial) ==
    LET r == CreateDragAndDropSource(mgr, id, <<"text/plain">>, DndCopy)
    IN  IF r.ok
        THEN [drag_sources |-> Append(drs, [source |-> Unwrap(r.value),
                                            accepted |-> FALSE]),
              reqs |-> r.reqs \o StartDrag(Unwrap(r.value), device, surface, serial),
              panic |-> FALSE]
        ELSE [drag_sources |-> drs, reqs |-> r.reqs, panic |-> TRUE]

\* DataSourceHandler::cancelled: the removed CopyPasteSource is dropped at the
\* end of the statement, then source.destroy()
AppCancelled(cps, source) ==
    LET i == PositionSource(cps, source)
    IN  [copy_paste_sources |-> IF i # 0 THEN RemoveAt(cps, i) ELSE cps,
         reqs |-> (IF i # 0 THEN DropCopyPasteSource(cps[i]) ELSE <<>>)
                  \o <<Req("destroy", WlDataSource(source), <<>>)>>]

\* DataSourceHandler::dnd_finished
AppDndFinished(cps, source) ==
    LET i == PositionSource(cps, source)
    IN  [copy_paste_sources |-> IF i # 0 THEN RemoveAt(cps, i) ELSE cps,
         reqs |-> (IF i # 0 THEN DropCopyPasteSource(cps[i]) ELSE <<>>)
                  \o <<Req("destroy", WlDataSource(source), <<>>)>>]

(***************************************************************************)
(* Event history of a seat's device, written from the events' arguments    *)
(* alone: the last enter since the last leave, the last motion since that  *)
(* enter, whether a leave was the last of enter/leave, and the argument of *)
(* the last selection event.                                               *)
(***************************************************************************)
NoHistory == [enter |-> None, motion |-> None, left |-> FALSE, selection |-> None]

EnterArgs(serial, surface, x, y, id) ==
    [serial |-> serial, surface |-> surface, x |-> x, y |-> y, id |-> id]

Devices == Range(data_devices)
Announced == 1..nextOffer
AnnouncedOn(d) == {o \in Announced : offerDev[o] = d}
\* The offers an event of device d can name: a wl_data_offer the client has
\* destroyed is a dead object, and no event delivers it as a proxy again.
LiveOn(d) == {o \in AnnouncedOn(d) : destroys[o] = 0}

(***************************************************************************)
(* Initial state: the registry has bound the manager and the               *)
(* seat's first capability has created its data device (new_capability).   *)
(***************************************************************************)
InitCommon ==
    /\ inner = [d \in Seats |-> DataDeviceInnerDefault]
    /\ offers = <<>>
    /\ sources = {}
    /\ nextToken = 0
    /\ nextOffer = 0
    /\ offerDev = [o \in OfferIds |-> 0]
    /\ destroys = [o \in OfferIds |-> 0]
    /\ copy_paste_sources = <<>>
    /\ drag_sources = <<>>
    /\ nextSource = 0
    /\ srcDestroys = [s \in SourceIds |-> 0]
    /\ srcOffers = [s \in SourceIds |-> <<>>]
    /\ aborted = FALSE
    /\ log = <<>>
    /\ hist = [d \in Seats |-> NoHistory]
    /\ offered = [o \in OfferIds |-> <<>>]
    /\ fds = {}
    /\ pipes = <<>>
    /\ reading = None
    /\ selSerial = [s \in SourceIds |-> None]
    /\ advertised = [o \in OfferIds |-> None]

Init ==
    /\ manager = "Bound"
    /\ data_devices = <<1>>
    /\ seatDevices = [s \in Seats |-> IF s = 1 THEN 1 ELSE 0]
    /\ refused = {}
    /\ InitCommon

(***************************************************************************)
(* One handler run to its end: lib is what the dispatcher arm did, app     *)
(* what the application callback did.                                      *)
(***************************************************************************)
Handled(ev, lib_reqs, lib_cbs, app_reqs) ==
    /\ log' = <<ev>> \o lib_reqs \o lib_cbs \o app_reqs
    /\ destroys' = [o \in OfferIds |-> destroys[o] + DestroysIn(log', WlDataOffer(o))]
    /\ srcDestroys' = [s \in SourceIds |->
                          srcDestroys[s] + DestroysIn(log', WlDataSource(s))]
    /\ srcOffers' = [s \in SourceIds |->
                        srcOffers[s] \o OffersIn(log', WlDataSource(s))]

\* wl_data_device.data_offer
DataOffer(d) ==
    /\ ~aborted /\ d \in Devices
    /\ nextOffer < MaxOffers
    /\ LET id == nextOffer + 1
           lib == DataOfferEvent(d, inner[d], id)
           app == AppDataOffer(offers, id, inner[d].serial)
       IN  /\ inner' = [inner EXCEPT ![d] = lib.inner]
           /\ offers' = app.offers
           /\ nextOffer' = id
           /\ offerDev' = [offerDev EXCEPT ![id] = d]
           /\ Handled(Ev("data_offer", WlDataDevice(d), <<id>>), lib.reqs, lib.cbs, app.reqs)
    /\ UNCHANGED <<pipeVars, mgrVars, srcVars, sources, nextToken, aborted, hist, offered,
                   advertised>>

\* wl_data_offer.offer, delivered while the client has not destroyed the offer
OfferHandled(o, mime_type) ==
    /\ ~aborted /\ o \in Announced /\ destroys[o] = 0
    /\ LET app == AppOffer(offers, o, mime_type)
       IN  /\ offers' = app.offers
           /\ Handled(Ev("offer", WlDataOffer(o), <<mime_type>>), <<>>,
                      <<Cb("offer", WlDataOffer(o), <<mime_type>>)>>, app.reqs)
    /\ UNCHANGED <<pipeVars, mgrVars, srcVars, inner, sources, nextToken, nextOffer, offerDev, aborted, hist,
                   advertised>>

OfferMime(o, mime_type) ==
    /\ \A i \in 1..Len(offers) : Len(offers[i].mime_types) < MaxMimes
    /\ OfferHandled(o, mime_type)
    /\ UNCHANGED offered

\* the same event, with the mime types sent so far kept in offered
OfferMimeTracked(o, mime_type) ==
    /\ Len(offered[o]) < MaxMimes
    /\ OfferHandled(o, mime_type)
    /\ offered' = [offered EXCEPT ![o] = Append(@, mime_type)]

\* wl_data_device.enter
Enter(d, serial, surface, x, y, id) ==
    /\ ~aborted /\ d \in Devices
    /\ LET lib == EnterEvent(d, inner[d], serial, surface, x, y, id)
           app == AppEnter(offers, serial, id)
       IN  /\ inner' = [inner EXCEPT ![d] = lib.inner]
           /\ offers' = app.offers
           /\ Handled(Ev("enter", WlDataDevice(d), <<serial, surface, x, y, id>>),
                      lib.reqs, lib.cbs, app.reqs)
    /\ hist' = [hist EXCEPT ![d].enter = Some(EnterArgs(serial, surface, x, y, id)),
                            ![d].motion = None, ![d].left = FALSE]
    /\ UNCHANGED <<pipeVars, mgrVars, srcVars, sources, nextToken, nextOffer, offerDev, aborted, offered,
                   advertised>>

\* leave that clears the drag state of every device
LeaveClearsAll(d) ==
    /\ ~aborted /\ d \in Devices
    /\ LET lib == LeaveEvent(d, inner[d])
       IN  /\ inner' = [e \in Seats |-> [inner[e] EXCEPT !.dnd_data_offer = None]]
           /\ Handled(Ev("leave", WlDataDevice(d), <<>>), lib.reqs, lib.cbs, <<>>)
    /\ hist' = [hist EXCEPT ![d].enter = None, ![d].motion = None, ![d].left = TRUE]
    /\ UNCHANGED <<pipeVars, mgrVars, srcVars, offers, sources, nextToken, nextOffer, offerDev, aborted, offered,
                   advertised>>

\* wl_data_device.leave
Leave(d) ==
    /\ ~aborted /\ d \in Devices
    /\ LET lib == LeaveEvent(d, inner[d])
       IN  /\ inner' = [inner EXCEPT ![d] = lib.inner]
           /\ Handled(Ev("leave", WlDataDevice(d), <<>>), lib.reqs, lib.cbs, <<>>)
    /\ hist' = [hist EXCEPT ![d].enter = None, ![d].motion = None, ![d].left = TRUE]
    /\ UNCHANGED <<pipeVars, mgrVars, srcVars, offers, sources, nextToken, nextOffer, offerDev, aborted, offered,
                   advertised>>

\* wl_data_device.motion
Motion(d, time, x, y) ==
    /\ ~aborted /\ d \in Devices
    /\ LET lib == MotionEvent(d, inner[d], time, x, y)
       IN  /\ inner' = [inner EXCEPT ![d] = lib.inner]
           /\ Handled(Ev("motion", WlDataDevice(d), <<time, x, y>>), lib.reqs, lib.cbs, <<>>)
    /\ hist' = IF IsSome(hist[d].enter)
               THEN [hist EXCEPT ![d].motion = Some(<<time, x, y>>)]
               ELSE hist
    /\ UNCHANGED <<pipeVars, mgrVars, srcVars, offers, sources, nextToken, nextOffer, offerDev, aborted, offered,
                   advertised>>

\* wl_data_device.drop
Drop(d, pipe_ok, insert_ok) ==
    /\ ~aborted /\ d \in Devices
    /\ LET lib == DropEvent(d, inner[d])
           app == IF lib.cbs = <<>>
                  THEN [offers |-> offers, sources |-> sources,
                        nextToken |-> nextToken, reqs |-> <<>>]
                  ELSE AppDropPerformed(offers, sources, nextToken,
                                        lib.cbs[1].args[1], pipe_ok, insert_ok)
       IN  /\ inner' = [inner EXCEPT ![d] = lib.inner]
           /\ offers' = app.offers
           /\ sources' = app.sources
           /\ nextToken' = app.nextToken
           /\ nextToken' <= MaxPipes
           /\ Handled(Ev("drop", WlDataDevice(d), <<>>), lib.reqs, lib.cbs, app.reqs)
    /\ UNCHANGED <<pipeVars, mgrVars, srcVars, nextOffer, offerDev, aborted, hist, offered,
                   advertised>>

\* wl_data_device.selection
Selection(d, id, pipe_ok, insert_ok) ==
    /\ ~aborted /\ d \in Devices
    /\ LET lib == SelectionEvent(d, inner[d], id)
           app == AppSelection(offers, sources, nextToken, id, pipe_ok, insert_ok)
       IN  /\ inner' = [inner EXCEPT ![d] = lib.inner]
           /\ offers' = app.offers
           /\ sources' = app.sources
           /\ nextToken' = app.nextToken
           /\ nextToken' <= MaxPipes
           /\ Handled(Ev("selection", WlDataDevice(d), <<id>>), lib.reqs, lib.cbs, app.reqs)
    /\ hist' = [hist EXCEPT ![d].selection = Some(id)]
    /\ UNCHANGED <<pipeVars, mgrVars, srcVars, nextOffer, offerDev, aborted, offered,
                   advertised>>

\* The event loop finds a registered read pipe readable and runs its closure.
PipeReady(src, read_ok) ==
    /\ ~aborted /\ src \in sources
    /\ LET app == ReadCallback(offers, sources, src.offer, read_ok)
       IN  /\ offers' = app.offers
           /\ sources' = app.sources
           /\ aborted' = app.panic
           /\ Handled(Ev("readable", ReadPipe(src.token), <<>>), <<>>,
                      <<Cb("read", ReadPipe(src.token), <<src.offer>>)>>, app.reqs)
    /\ UNCHANGED <<pipeVars, mgrVars, srcVars, inner, nextToken, nextOffer, offerDev, hist, offered,
                   advertised>>

Next ==
    \/ \E d \in Seats : DataOffer(d)
    \/ \E o \in OfferIds, m \in Mimes : OfferMime(o, m)
    \/ \E d \in Seats, e \in EnterInputs :
          \E id \in OptionOf(LiveOn(d)) : Enter(d, e[1], e[2], e[3], e[4], id)
    \/ \E d \in Seats : Leave(d)
    \/ \E d \in Seats, m \in MotionInputs : Motion(d, m[1], m[2], m[3])
    \/ \E d \in Seats, pipe_ok \in BOOLEAN, insert_ok \in BOOLEAN :
            Drop(d, pipe_ok, insert_ok)
    \/ \E d \in Seats, pipe_ok \in BOOLEAN, insert_ok \in BOOLEAN :
          \E id \in OptionOf(LiveOn(d)) : Selection(d, id, pipe_ok, insert_ok)
    \/ \E src \in sources, read_ok \in BOOLEAN : PipeReady(src, read_ok)

Spec == Init /\ [][Next]_vars

(***************************************************************************)
(* The same program under a compositor that follows the protocol's use of  *)
(* offers: an enter or selection event introduces an offer that no slot of *)
(* the device holds yet.                                                   *)
(***************************************************************************)
FreshOn(d) ==
    {o \in LiveOn(d) : HeldDrag(inner[d]) # Some(o) /\ inner[d].selection # Some(o)}

NextProtocol ==
    \/ \E d \in Seats : DataOffer(d)
    \/ \E o \in OfferIds, m \in Mimes : OfferMime(o, m)
    \/ \E d \in Seats, e \in EnterInputs :
          \E id \in OptionOf(FreshOn(d)) : Enter(d, e[1], e[2], e[3], e[4], id)
    \/ \E d \in Seats : Leave(d)
    \/ \E d \in Seats, m \in MotionInputs : Motion(d, m[1], m[2], m[3])
    \/ \E d \in Seats, pipe_ok \in BOOLEAN, insert_ok \in BOOLEAN :
            Drop(d, pipe_ok, insert_ok)
    \/ \E d \in Seats, pipe_ok \in BOOLEAN, insert_ok \in BOOLEAN :
          \E id \in OptionOf(FreshOn(d)) : Selection(d, id, pipe_ok, insert_ok)
    \/ \E src \in sources, read_ok \in BOOLEAN : PipeReady(src, read_ok)

SpecProtocol == Init /\ [][NextProtocol]_vars

(***************************************************************************)
(* Two seats: each seat's first capability has created a data device of    *)
(* its own, and the compositor sends events on both.                       *)
(***************************************************************************)
InitSeats ==
    /\ manager = "Bound"
    /\ data_devices = [s \in Seats |-> s]
    /\ seatDevices = [s \in Seats |-> s]
    /\ refused = {}
    /\ InitCommon

\* the events of NextProtocol on either device, with one mime type, one
\* position of the pointer and transfers whose pipes can be made
NextSeats ==
    \/ \E d \in Seats : DataOffer(d)
    \/ \E o \in OfferIds : OfferMime(o, "text/plain")
    \/ \E d \in Seats, e \in {x \in EnterInputs : x[2] = "S"} :
          \E id \in OptionOf(FreshOn(d)) : Enter(d, e[1], e[2], e[3], e[4], id)
    \/ \E d \in Seats : Leave(d)
    \/ \E d \in Seats, m \in {x \in MotionInputs : x[1] = 22} :
            Motion(d, m[1], m[2], m[3])
    \/ \E d \in Seats : Drop(d, TRUE, TRUE)
    \/ \E d \in Seats : \E id \in OptionOf(FreshOn(d)) : Selection(d, id, TRUE, TRUE)
    \/ \E src \in sources : PipeReady(src, TRUE)

SpecSeats == InitSeats /\ [][NextSeats]_vars

(***************************************************************************)
(* A long session: the device of seat 1 has announced all but the last     *)
(* MaxOffers of the offers a u32 serial can number, every one of them was  *)
(* read and destroyed and the selection cleared.  The build's overflow     *)
(* checks are an input of every announcement.                              *)
(***************************************************************************)
InitSerial ==
    /\ manager = "Bound"
    /\ data_devices = <<1>>
    /\ seatDevices = [s \in Seats |-> IF s = 1 THEN 1 ELSE 0]
    /\ refused = {}
    /\ inner = [d \in Seats |->
                  IF d = 1
                  THEN [DataDeviceInnerDefault EXCEPT !.serial = 2 ^ SerialBits - MaxOffers]
                  ELSE DataDeviceInnerDefault]
    /\ offers = <<>>
    /\ sources = {}
    /\ nextToken = 0
    /\ nextOffer = 0
    /\ offerDev = [o \in OfferIds |-> 0]
    /\ destroys = [o \in OfferIds |-> 0]
    /\ copy_paste_sources = <<>>
    /\ drag_sources = <<>>
    /\ nextSource = 0
    /\ srcDestroys = [s \in SourceIds |-> 0]
    /\ srcOffers = [s \in SourceIds |-> <<>>]
    /\ aborted = FALSE
    /\ log = <<>>
    /\ hist = [d \in Seats |-> NoHistory]
    /\ offered = [o \in OfferIds |-> <<>>]
    /\ fds = {}
    /\ pipes = <<>>
    /\ reading = None
    /\ selSerial = [s \in SourceIds |-> None]
    /\ advertised = [o \in OfferIds |-> None]

\* wl_data_device.data_offer in a build with or without overflow checks
DataOfferBuilt(d, overflow_checks) ==
    /\ ~aborted /\ d \in Devices
    /\ nextOffer < MaxOffers
    /\ LET id == nextOffer + 1
           lib == DataOfferEventBuilt(d, inner[d], id, overflow_checks)
           app == AppDataOffer(offers, id, inner[d].serial)
       IN  /\ inner' = [inner EXCEPT ![d] = lib.inner]
           /\ offers' = IF lib.panic THEN offers ELSE app.offers
           /\ aborted' = lib.panic
           /\ nextOffer' = id
           /\ offerDev' = [offerDev EXCEPT ![id] = d]
           /\ Handled(Ev("data_offer", WlDataDevice(d), <<id>>), lib.reqs, lib.cbs,
                      IF lib.panic THEN <<>> ELSE app.reqs)
    /\ UNCHANGED <<pipeVars, mgrVars, srcVars, sources, nextToken, hist, offered,
                   advertised>>

NextSerial ==
    \/ \E d \in Seats, overflow_checks \in BOOLEAN : DataOfferBuilt(d, overflow_checks)
    \/ \E o \in OfferIds, m \in Mimes : OfferMime(o, m)
    \/ \E d \in Seats, e \in EnterInputs :
          \E id \in OptionOf(FreshOn(d)) : Enter(d, e[1], e[2], e[3], e[4], id)
    \/ \E d \in Seats : Leave(d)
    \/ \E d \in Seats, m \in MotionInputs : Motion(d, m[1], m[2], m[3])
    \/ \E d \in Seats, pipe_ok \in BOOLEAN, insert_ok \in BOOLEAN :
            Drop(d, pipe_ok, insert_ok)
    \/ \E d \in Seats, pipe_ok \in BOOLEAN, insert_ok \in BOOLEAN :
          \E id \in OptionOf(FreshOn(d)) : Selection(d, id, pipe_ok, insert_ok)
    \/ \E src \in sources, read_ok \in BOOLEAN : PipeReady(src, read_ok)

SpecSerial == InitSerial /\ [][NextSerial]_vars

(***************************************************************************)
(* The source side: the application creates sources on key and button      *)
(* presses, the compositor sends events on the sources the client has not  *)
(* destroyed.                                                              *)
(***************************************************************************)
Created == 1..nextSource
LiveSources == {s \in Created : srcDestroys[s] = 0}

\* wl_keyboard key "c" on the keyboard of seat d
PressKey(d, serial) ==
    /\ ~aborted /\ d \in Devices
    /\ nextSource < MaxSources
    /\ LET app == AppPressKey(manager, copy_paste_sources, nextSource + 1, d, serial)
       IN  /\ copy_paste_sources' = app.copy_paste_sources
           /\ aborted' = app.panic
           /\ nextSource' = IF app.panic THEN nextSource ELSE nextSource + 1
           /\ selSerial' = IF app.panic THEN selSerial
                           ELSE [selSerial EXCEPT ![nextSource + 1] = Some(serial)]
           /\ Handled(Ev("key", <<"wl_keyboard", d>>, <<serial>>), <<>>, <<>>, app.reqs)
    /\ UNCHANGED <<pipeVars, mgrVars, devVars, drag_sources>>

\* wl_pointer button BTN_LEFT on the window, pointer of seat d
PointerPress(d, serial) ==
    /\ ~aborted /\ d \in Devices
    /\ nextSource < MaxSources
    /\ LET app == AppPointerPress(manager, drag_sources, nextSource + 1, d, "S", serial)
       IN  /\ drag_sources' = app.drag_sources
           /\ aborted' = app.panic
           /\ nextSource' = IF app.panic THEN nextSource ELSE nextSource + 1
           /\ Handled(Ev("button", <<"wl_pointer", d>>, <<serial>>), <<>>, <<>>, app.reqs)
    /\ UNCHANGED <<pipeVars, mgrVars, devVars, copy_paste_sources, selSerial>>

\* wl_data_source.cancelled
SourceCancelled(s) ==
    /\ ~aborted /\ s \in LiveSources
    /\ LET lib == SourceCancelledEvent(s)
           app == AppCancelled(copy_paste_sources, s)
       IN  /\ copy_paste_sources' = app.copy_paste_sources
           /\ Handled(Ev("cancelled", WlDataSource(s), <<>>), lib.reqs, lib.cbs, app.reqs)
    /\ UNCHANGED <<pipeVars, mgrVars, devVars, drag_sources, nextSource, selSerial, aborted>>

\* wl_data_source.dnd_finished
SourceDndFinished(s) ==
    /\ ~aborted /\ s \in LiveSources
    /\ \E i \in 1..Len(drag_sources) : drag_sources[i].source.inner = s
    /\ LET lib == SourceDndFinishedEvent(s)
           app == AppDndFinished(copy_paste_sources, s)
       IN  /\ copy_paste_sources' = app.copy_paste_sources
           /\ Handled(Ev("dnd_finished", WlDataSource(s), <<>>), lib.reqs, lib.cbs, app.reqs)
    /\ UNCHANGED <<pipeVars, mgrVars, devVars, drag_sources, nextSource, selSerial, aborted>>

NextSource ==
    \/ \E d \in Seats, serial \in InputSerials : PressKey(d, serial)
    \/ \E d \in Seats, serial \in InputSerials : PointerPress(d, serial)
    \/ \E s \in SourceIds : SourceCancelled(s)
    \/ \E s \in SourceIds : SourceDndFinished(s)

SpecSource == Init /\ [][NextSource]_vars

(***************************************************************************)
(* Announcement of offers, their mime types, and drags entering and        *)
(* leaving, with the mime types of every offer event kept in offered.      *)
(***************************************************************************)
NextMimes ==
    \/ \E d \in Seats : DataOffer(d)
    \/ \E o \in OfferIds, m \in Mimes : OfferMimeTracked(o, m)
    \/ \E d \in Seats, e \in EnterInputs :
          \E id \in OptionOf(LiveOn(d)) : Enter(d, e[1], e[2], e[3], e[4], id)
    \/ \E d \in Seats : Leave(d)

SpecMimes == Init /\ [][NextMimes]_vars


(***************************************************************************)
(* The manager facade called directly: DataDeviceManagerState's public     *)
(* operations before and after the registry's ready notification.  A call  *)
(* is logged as <<call, requests..., return>>.                             *)
(***************************************************************************)
Call(op, obj, args) == [kind |-> "call", op |-> op, obj |-> obj, args |-> args]
Ret(op, obj, args) == [kind |-> "return", op |-> op, obj |-> obj, args |-> args]
WlSeat(s) == <<"wl_seat", s>>

\* GlobalProxy::get of the manager: Ok only for a bound global
ManagerGet(mgr) == mgr = "Bound"

\* From<Result<I, BindError>> for GlobalProxy<I>, on the result of bind_one
ManagerInto(bind_ok) == IF bind_ok THEN "Bound" ELSE "NotPresent"

\* get_data_device_with_data that sends its request whatever get() returned
GetDataDeviceWithDataUnchecked(mgr, seat, id) ==
    [ok |-> TRUE,
     reqs |-> <<Req("get_data_device", WlDataDeviceManager, <<id, seat>>)>>]

\* DataDeviceManagerState::get_data_device_with_data; id is the object id of
\* the new wl_data_device
GetDataDeviceWithData(mgr, seat, id) ==
    IF ManagerGet(mgr)
    THEN [ok |-> TRUE,
          reqs |-> <<Req("get_data_device", WlDataDeviceManager, <<id, seat>>)>>]
    ELSE [ok |-> FALSE, reqs |-> <<>>]

\* DataDeviceManagerState::get_data_device
GetDataDevice(mgr, seat, id) == GetDataDeviceWithData(mgr, seat, id)

\* SeatHandler::new_capability: the device of the seat is looked up in
\* data_devices and created with get_data_device(..).unwrap() when missing
AppNewCapability(mgr, devs, seat, id) ==
    IF \E i \in 1..Len(devs) : devs[i] = seat
    THEN [data_devices |-> devs, reqs |-> <<>>, created |-> FALSE, panic |-> FALSE]
    ELSE LET r == GetDataDevice(mgr, seat, id)
         IN  IF r.ok
             THEN [data_devices |-> Append(devs, seat), reqs |-> r.reqs,
                   created |-> TRUE, panic |-> FALSE]
             ELSE [data_devices |-> devs, reqs |-> r.reqs,
                   created |-> FALSE, panic |-> TRUE]

Result(ok) == IF ok THEN "Ok" ELSE "Err"

InitManager ==
    /\ manager = "NotReady"
    /\ data_devices = <<>>
    /\ seatDevices = [s \in Seats |-> 0]
    /\ refused = {}
    /\ InitCommon

\* RegistryHandler::ready
Ready(bind_ok) ==
    /\ ~aborted /\ manager = "NotReady"
    /\ manager' = ManagerInto(bind_ok)
    /\ Handled(Ev("ready", <<"wl_registry", 1>>, <<>>), <<>>, <<>>, <<>>)
    /\ UNCHANGED <<pipeVars, data_devices, seatDevices, refused, devVars, srcVars, aborted>>

\* wl_seat capabilities, delivered to new_capability
NewCapability(seat) ==
    /\ ~aborted
    /\ LET app == AppNewCapability(manager, data_devices, seat, seatDevices[seat] + 1)
       IN  /\ app.created => seatDevices[seat] < MaxDevices
           /\ data_devices' = app.data_devices
           /\ seatDevices' = IF app.created
                             THEN [seatDevices EXCEPT ![seat] = @ + 1]
                             ELSE seatDevices
           /\ aborted' = app.panic
           /\ Handled(Ev("capabilities", WlSeat(seat), <<>>), <<>>, <<>>, app.reqs)
    /\ UNCHANGED <<pipeVars, manager, refused, devVars, srcVars>>

\* a caller of the library calls get_data_device(qh, seat)
CallGetDataDevice(seat) ==
    /\ ~aborted /\ seatDevices[seat] < MaxDevices
    /\ LET id == seatDevices[seat] + 1
           r == GetDataDevice(manager, seat, id)
       IN  /\ seatDevices' = IF r.ok THEN [seatDevices EXCEPT ![seat] = id]
                                     ELSE seatDevices
           /\ refused' = IF r.ok THEN refused ELSE refused \cup {"get_data_device"}
           /\ Handled(Call("get_data_device", WlSeat(seat), <<>>), r.reqs,
                      <<Ret("get_data_device", WlSeat(seat),
                            <<Result(r.ok), IF r.ok THEN id ELSE 0>>)>>, <<>>)
    /\ UNCHANGED <<pipeVars, manager, data_devices, devVars, srcVars, aborted>>

\* a caller calls create_data_source_with_data(qh, data)
CallCreateDataSourceWithData ==
    /\ ~aborted /\ nextSource < MaxSources
    /\ LET id == nextSource + 1
           r == CreateDataSourceWithData(manager, id)
       IN  /\ nextSource' = IF r.ok THEN id ELSE nextSource
           /\ refused' = IF r.ok THEN refused
                         ELSE refused \cup {"create_data_source_with_data"}
           /\ Handled(Call("create_data_source_with_data", WlDataDeviceManager, <<>>),
                      r.reqs,
                      <<Ret("create_data_source_with_data", WlDataDeviceManager,
                            <<Result(r.ok), IF r.ok THEN id ELSE 0>>)>>, <<>>)
    /\ UNCHANGED <<pipeVars, manager, data_devices, seatDevices, devVars, copy_paste_sources,
                   drag_sources, selSerial, aborted>>

\* a caller calls create_copy_paste_source(qh, ["text/plain"]) and keeps the
\* source it gets
CallCreateCopyPasteSource ==
    /\ ~aborted /\ nextSource < MaxSources
    /\ LET id == nextSource + 1
           r == CreateCopyPasteSource(manager, id, <<"text/plain">>)
       IN  /\ nextSource' = IF r.ok THEN id ELSE nextSource
           /\ copy_paste_sources' = IF r.ok
                                    THEN Append(copy_paste_sources, Unwrap(r.value))
                                    ELSE copy_paste_sources
           /\ refused' = IF r.ok THEN refused
                         ELSE refused \cup {"create_copy_paste_source"}
           /\ Handled(Call("create_copy_paste_source", WlDataDeviceManager, <<>>),
                      r.reqs,
                      <<Ret("create_copy_paste_source", WlDataDeviceManager,
                            <<Result(r.ok), IF r.ok THEN id ELSE 0>>)>>, <<>>)
    /\ UNCHANGED <<pipeVars, manager, data_devices, seatDevices, devVars, drag_sources,
                   selSerial, aborted>>

\* a caller calls create_drag_and_drop_source(qh, ["text/plain"], Copy) and
\* keeps the source it gets
CallCreateDragAndDropSource ==
    /\ ~aborted /\ nextSource < MaxSources
    /\ LET id == nextSource + 1
           r == CreateDragAndDropSource(manager, id, <<"text/plain">>, DndCopy)
       IN  /\ nextSource' = IF r.ok THEN id ELSE nextSource
           /\ drag_sources' = IF r.ok
                              THEN Append(drag_sources, [source |-> Unwrap(r.value),
                                                         accepted |-> FALSE])
                              ELSE drag_sources
           /\ refused' = IF r.ok THEN refused
                         ELSE refused \cup {"create_drag_and_drop_source"}
           /\ Handled(Call("create_drag_and_drop_source", WlDataDeviceManager, <<>>),
                      r.reqs,
                      <<Ret("create_drag_and_drop_source", WlDataDeviceManager,
                            <<Result(r.ok), IF r.ok THEN id ELSE 0>>)>>, <<>>)
    /\ UNCHANGED <<pipeVars, manager, data_devices, seatDevices, devVars, copy_paste_sources,
                   selSerial, aborted>>

NextManager ==
    \/ \E bind_ok \in BOOLEAN : Ready(bind_ok)
    \/ \E seat \in Seats : NewCapability(seat)
    \/ \E seat \in Seats : CallGetDataDevice(seat)
    \/ CallCreateDataSourceWithData
    \/ CallCreateCopyPasteSource
    \/ CallCreateDragAndDropSource

SpecManager == InitManager /\ [][NextManager]_vars


(***************************************************************************)
(* The transfer channel at the level of file descriptors.  A descriptor is *)
(* <<pipe, "read">> or <<pipe, "write">>.  A pipe is a record:             *)
(*   buf       the bytes written and not yet read (the kernel's buffer)    *)
(*   peer      where the write end sent with the receive request is:       *)
(*             "none" (not sent), "queued" (in the connection's outgoing   *)
(*             queue), "open" (the peer has it), "closed" (the peer has    *)
(*             closed it)                                                  *)
(*   written   all bytes the peer has written, in order                    *)
(*   observed  all bytes read from the read end, in order                  *)
(*   eof       a read from the read end has returned 0 bytes               *)
(*   by        who made the pipe: "receive" or the "caller" itself         *)
(***************************************************************************)
Bytes == {"a", "b"}
ReadFd(p) == <<p, "read">>
WriteFd(p) == <<p, "write">>
Sys(op, obj, args) == [kind |-> "syscall", op |-> op, obj |-> obj, args |-> args]

NewPipe == [buf |-> <<>>, peer |-> "none", written |-> <<>>, observed |-> <<>>,
            eof |-> FALSE, by |-> "caller"]

\* close that leaves the descriptor open when it reports an error
CloseKeepsOnError(fdt, fd, close_ok) ==
    [ok |-> close_ok, fds |-> IF close_ok THEN fdt \ {fd} ELSE fdt]

\* nix::unistd::close: the descriptor is released whether or not the call
\* reports an error (Linux and the BSDs release a valid descriptor always)
Close(fdt, fd, close_ok) == [ok |-> close_ok, fds |-> fdt \ {fd}]

\* receive that leaves the write end open
ReceiveWithFdsNoClose(fdt, id, offer, mime_type, pipe_ok, close_ok) ==
    IF ~pipe_ok
    THEN [ok |-> FALSE, fds |-> fdt, sent |-> FALSE,
          items |-> <<Sys("pipe2", <<"pipe", id>>, <<"Err">>)>>]
    ELSE [ok |-> TRUE, fds |-> fdt \cup {ReadFd(id), WriteFd(id)}, sent |-> TRUE,
          items |-> <<Sys("pipe2", <<"pipe", id>>, <<"Ok">>),
                      Req("receive", WlDataOffer(offer), <<mime_type, WriteFd(id)>>)>>]

\* receive that sends its request before it looks at the result of pipe2
ReceiveWithFdsSendsFirst(fdt, id, offer, mime_type, pipe_ok, close_ok) ==
    IF ~pipe_ok
    THEN [ok |-> FALSE, fds |-> fdt, sent |-> FALSE,
          items |-> <<Sys("pipe2", <<"pipe", id>>, <<"Err">>),
                      Req("receive", WlDataOffer(offer), <<mime_type, WriteFd(id)>>)>>]
    ELSE LET c == Close(fdt \cup {ReadFd(id), WriteFd(id)}, WriteFd(id), close_ok)
         IN  [ok |-> TRUE, fds |-> c.fds, sent |-> TRUE,
              items |-> <<Sys("pipe2", <<"pipe", id>>, <<"Ok">>),
                          Req("receive", WlDataOffer(offer), <<mime_type, WriteFd(id)>>),
                          Sys("close", WriteFd(id), <<Result(c.ok)>>)>>]

\* data_offer::receive with the descriptor table fdt; id is the pipe that
\* pipe2 creates.  ok is whether it returns Ok (of the ReadPipe on
\* ReadFd(id)), sent whether the write end went out with a request, items
\* what it did, in order.
ReceiveWithFds(fdt, id, offer, mime_type, pipe_ok, close_ok) ==
    IF ~pipe_ok
    THEN [ok |-> FALSE, fds |-> fdt, sent |-> FALSE,
          items |-> <<Sys("pipe2", <<"pipe", id>>, <<"Err">>)>>]
    ELSE LET c == Close(fdt \cup {ReadFd(id), WriteFd(id)}, WriteFd(id), close_ok)
         IN  [ok |-> TRUE, fds |-> c.fds, sent |-> TRUE,
              items |-> <<Sys("pipe2", <<"pipe", id>>, <<"Ok">>),
                          Req("receive", WlDataOffer(offer), <<mime_type, WriteFd(id)>>),
                          Sys("close", WriteFd(id), <<Result(c.ok)>>)>>]

\* data_offer::receive_to_fd
ReceiveToFd(fdt, offer, mime_type, writefd, close_ok) ==
    LET c == Close(fdt, writefd, close_ok)
    IN  [fds |-> c.fds,
         items |-> <<Req("receive", WlDataOffer(offer), <<mime_type, writefd>>),
                     Sys("close", writefd, <<Result(c.ok)>>)>>]

\* whether any write end of pipe p is open anywhere
WriteEndOpen(p) ==
    WriteFd(p) \in fds \/ pipes[p].peer \in {"queued", "open"}

\* min(n, the bytes buffered)
ReadLen(p, n) == IF n < Len(pipes[p].buf) THEN n ELSE Len(pipes[p].buf)

\* a caller calls receive(offer, mime_type)
CallReceive(o, mime_type, pipe_ok, close_ok) ==
    /\ ~aborted /\ o \in Announced /\ destroys[o] = 0
    /\ Len(pipes) < MaxPipes
    /\ LET id == Len(pipes) + 1
           r == ReceiveWithFds(fds, id, o, mime_type, pipe_ok, close_ok)
       IN  /\ fds' = r.fds
           /\ pipes' = IF pipe_ok
                       THEN Append(pipes, [NewPipe EXCEPT
                                              !.peer = IF r.sent THEN "queued" ELSE "none",
                                              !.by = "receive"])
                       ELSE pipes
           /\ refused' = IF r.ok THEN refused ELSE refused \cup {"receive"}
           /\ Handled(Call("receive", WlDataOffer(o), <<mime_type>>), r.items,
                      <<Ret("receive", WlDataOffer(o),
                            <<Result(r.ok), IF r.ok THEN ReadFd(id) ELSE <<>> >>)>>, <<>>)
    /\ UNCHANGED <<reading, manager, data_devices, seatDevices, devVars, srcVars, aborted>>

\* a caller makes a pipe of its own, for receive_to_fd
CallerPipe ==
    /\ ~aborted /\ Len(pipes) < MaxPipes
    /\ LET id == Len(pipes) + 1
       IN  /\ fds' = fds \cup {ReadFd(id), WriteFd(id)}
           /\ pipes' = Append(pipes, NewPipe)
           /\ Handled(Call("pipe", <<"pipe", id>>, <<>>),
                      <<Sys("pipe2", <<"pipe", id>>, <<"Ok">>)>>, <<>>, <<>>)
    /\ UNCHANGED <<reading, mgrVars, devVars, srcVars, aborted>>

\* a caller calls receive_to_fd(offer, mime_type, writefd) with the write end
\* of a pipe of its own
CallReceiveToFd(o, mime_type, p, close_ok) ==
    /\ ~aborted /\ o \in Announced /\ destroys[o] = 0
    /\ p \in 1..Len(pipes) /\ WriteFd(p) \in fds /\ pipes[p].peer = "none"
    /\ LET r == ReceiveToFd(fds, o, mime_type, WriteFd(p), close_ok)
       IN  /\ fds' = r.fds
           /\ pipes' = [pipes EXCEPT ![p].peer = "queued"]
           /\ Handled(Call("receive_to_fd", WlDataOffer(o), <<mime_type, WriteFd(p)>>),
                      r.items, <<Ret("receive_to_fd", WlDataOffer(o), <<"Ok">>)>>, <<>>)
    /\ UNCHANGED <<reading, mgrVars, devVars, srcVars, aborted>>

\* the connection is flushed: the peer gets the write end of pipe p
Flush(p) ==
    /\ ~aborted /\ p \in 1..Len(pipes) /\ pipes[p].peer = "queued"
    /\ pipes' = [pipes EXCEPT ![p].peer = "open"]
    /\ Handled(Ev("flush", <<"pipe", p>>, <<>>), <<>>, <<>>, <<>>)
    /\ UNCHANGED <<fds, reading, mgrVars, devVars, srcVars, aborted>>

\* the peer writes one byte to its write end
PeerWrite(p, b) ==
    /\ ~aborted /\ p \in 1..Len(pipes) /\ pipes[p].peer = "open"
    /\ Len(pipes[p].written) < MaxBytes
    /\ pipes' = [pipes EXCEPT ![p].buf = Append(@, b), ![p].written = Append(@, b)]
    /\ Handled(Ev("write", <<"pipe", p>>, <<b>>), <<>>, <<>>, <<>>)
    /\ UNCHANGED <<fds, reading, mgrVars, devVars, srcVars, aborted>>

\* the peer closes its write end
PeerClose(p) ==
    /\ ~aborted /\ p \in 1..Len(pipes) /\ pipes[p].peer = "open"
    /\ pipes' = [pipes EXCEPT ![p].peer = "closed"]
    /\ Handled(Ev("close", <<"pipe", p>>, <<>>), <<>>, <<>>, <<>>)
    /\ UNCHANGED <<fds, reading, mgrVars, devVars, srcVars, aborted>>

\* io::Read for ReadPipe, with a buffer of n bytes: the bytes at the head of
\* the pipe, or 0 bytes at end-of-stream; with nothing buffered and a write
\* end open the call blocks
Read(p, n) ==
    /\ ~aborted /\ p \in 1..Len(pipes) /\ ReadFd(p) \in fds
    /\ pipes[p].buf # <<>> \/ ~WriteEndOpen(p)
    /\ LET k == ReadLen(p, n)
           got == SubSeq(pipes[p].buf, 1, k)
       IN  /\ pipes' = [pipes EXCEPT ![p].buf = SubSeq(@, k + 1, Len(@)),
                                     ![p].observed = @ \o got,
                                     ![p].eof = (k = 0)]
           /\ Handled(Call("read", ReadPipe(p), <<n>>), <<>>,
                      <<Ret("read", ReadPipe(p), <<"Ok", got>>)>>, <<>>)
    /\ UNCHANGED <<fds, reading, mgrVars, devVars, srcVars, aborted>>

NextPipe ==
    \/ \E d \in Seats : DataOffer(d)
    \/ \E o \in OfferIds, m \in Mimes, pipe_ok \in BOOLEAN, close_ok \in BOOLEAN :
            CallReceive(o, m, pipe_ok, close_ok)
    \/ CallerPipe
    \/ \E o \in OfferIds, m \in Mimes, p \in 1..MaxPipes, close_ok \in BOOLEAN :
            CallReceiveToFd(o, m, p, close_ok)
    \/ \E p \in 1..MaxPipes : Flush(p)
    \/ \E p \in 1..MaxPipes, b \in Bytes : PeerWrite(p, b)
    \/ \E p \in 1..MaxPipes : PeerClose(p)
    \/ \E p \in 1..MaxPipes, n \in 1..MaxBytes : Read(p, n)

SpecPipe == Init /\ [][NextPipe]_vars


(***************************************************************************)
(* Copy-paste sources used directly: a caller sets and unsets the          *)
(* selection with the sources it has created.                              *)
(***************************************************************************)
\* a caller calls set_selection(device, serial) on copy_paste_sources[i]
CallSetSelection(i, d, serial) ==
    /\ ~aborted /\ d \in Devices /\ i \in 1..Len(copy_paste_sources)
    /\ LET src == copy_paste_sources[i]
       IN  /\ src.inner \in LiveSources
           /\ selSerial' = [selSerial EXCEPT ![src.inner] = Some(serial)]
           /\ Handled(Call("set_selection", WlDataSource(src.inner), <<d, serial>>),
                      SetSelection(src, d, serial),
                      <<Ret("set_selection", WlDataSource(src.inner), <<>>)>>, <<>>)
    /\ UNCHANGED <<pipeVars, mgrVars, devVars, copy_paste_sources, drag_sources,
                   nextSource, aborted>>

\* a caller calls unset_selection(device) on copy_paste_sources[i]
CallUnsetSelection(i, d) ==
    /\ ~aborted /\ d \in Devices /\ i \in 1..Len(copy_paste_sources)
    /\ LET src == copy_paste_sources[i]
       IN  /\ src.inner \in LiveSources
           /\ Handled(Call("unset_selection", WlDataSource(src.inner), <<d>>),
                      UnsetSelection(src, d),
                      <<Ret("unset_selection", WlDataSource(src.inner), <<>>)>>, <<>>)
    /\ UNCHANGED <<pipeVars, mgrVars, devVars, srcVars, aborted>>

NextSelection ==
    \/ CallCreateCopyPasteSource
    \/ \E d \in Seats, serial \in InputSerials : PressKey(d, serial)
    \/ \E i \in 1..MaxSources, d \in Seats, serial \in InputSerials :
            CallSetSelection(i, d, serial)
    \/ \E i \in 1..MaxSources, d \in Seats : CallUnsetSelection(i, d)
    \/ \E s \in SourceIds : SourceCancelled(s)

SpecSelection == Init /\ [][NextSelection]_vars

(***************************************************************************)
(* Action negotiation of a drag: the offer's source_actions and action     *)
(* events among the announcement of offers, their mime types, enter, leave *)
(* and drop.                                                               *)
(***************************************************************************)
\* wl_data_offer.source_actions
SourceActions(o, actions) ==
    /\ ~aborted /\ o \in Announced /\ destroys[o] = 0
    /\ advertised' = [advertised EXCEPT ![o] = Some(actions)]
    /\ Handled(Ev("source_actions", WlDataOffer(o), <<actions>>), <<>>,
               <<Cb("source_actions", WlDataOffer(o), <<actions>>)>>,
               AppSourceActions(o, actions))
    /\ UNCHANGED <<pipeVars, mgrVars, srcVars, inner, offers, sources, nextToken,
                   nextOffer, offerDev, aborted, hist, offered>>

\* wl_data_offer.action: the compositor reports an action both sides have
\* announced, or none
Action(o, action) ==
    /\ ~aborted /\ o \in Announced /\ destroys[o] = 0
    /\ IsSome(advertised[o]) /\ IsSome(Unwrap(advertised[o]))
    /\ action \subseteq Unwrap(Unwrap(advertised[o]))
    /\ Handled(Ev("action", WlDataOffer(o), <<action>>), <<>>,
               <<Cb("actions", WlDataOffer(o), <<action>>)>>, AppActions(o, action))
    /\ UNCHANGED <<pipeVars, mgrVars, srcVars, devVars, aborted>>

NextActions ==
    \/ \E d \in Seats : DataOffer(d)
    \/ \E o \in OfferIds, m \in Mimes : OfferMime(o, m)
    \/ \E o \in OfferIds, a \in OptionOf(ActionSets) : SourceActions(o, a)
    \/ \E o \in OfferIds, a \in {{}, {"copy"}, {"move"}} : Action(o, a)
    \/ \E d \in Seats, e \in EnterInputs :
          \E id \in OptionOf(FreshOn(d)) : Enter(d, e[1], e[2], e[3], e[4], id)
    \/ \E d \in Seats : Leave(d)
    \/ \E d \in Seats, pipe_ok \in BOOLEAN, insert_ok \in BOOLEAN :
            Drop(d, pipe_ok, insert_ok)

SpecActions == Init /\ [][NextActions]_vars

(***************************************************************************)
(* The transfers of the example application at the level of descriptors:   *)
(* selection and drop_performed call receive and register the read pipe    *)
(* with the event loop; the event loop runs the pipe's closure when the    *)
(* pipe is readable; the closure reads to end-of-stream with               *)
(* read_to_string, on the dispatch thread.  A registered source is         *)
(* [token, offer, pipe].  While the closure is inside read_to_string,      *)
(* reading holds its captured offer, the token it took from the entry and  *)
(* the pipe it reads, and the dispatch thread does nothing else: it        *)
(* handles no event and does not flush the connection.                     *)
(***************************************************************************)
\* a source that is dispatched whether or not its descriptor is readable
ReadableAlways(p) == TRUE

\* calloop::generic::Generic::new(file, Interest::READ, Mode::Level): the
\* source is ready whenever a read of its descriptor would not block
Readable(p) == pipes[p].buf # <<>> \/ ~WriteEndOpen(p)

\* The body shared by DataDeviceHandler::selection and ::drop_performed, with
\* the descriptor table fdt; id is the pipe that pipe2 creates.  A read pipe
\* that insert_source refuses is dropped, which closes its descriptor.
AppReceiveWithFds(offs, srcs, ntok, fdt, id, ident, pipe_ok, close_ok, insert_ok) ==
    LET i == IF IsSome(ident) THEN Position(offs, Unwrap(ident)) ELSE 0
        same == [offers |-> offs, sources |-> srcs, nextToken |-> ntok, fds |-> fdt,
                 made |-> FALSE, items |-> <<>>]
    IN  IF i = 0 \/ Len(offs[i].mime_types) = 0
        THEN same
        ELSE LET r == ReceiveWithFds(fdt, id, offs[i].offer, offs[i].mime_types[1],
                                     pipe_ok, close_ok)
             IN  IF ~r.ok
                 THEN [same EXCEPT !.items = r.items]
                 ELSE IF insert_ok
                      THEN [offers |-> [offs EXCEPT ![i].token = Some(ntok + 1)],
                            sources |-> srcs \cup {[token |-> ntok + 1,
                                                    offer |-> offs[i].offer,
                                                    pipe |-> id]},
                            nextToken |-> ntok + 1,
                            fds |-> r.fds, made |-> TRUE, items |-> r.items]
                      ELSE [same EXCEPT !.fds = Close(r.fds, ReadFd(id), TRUE).fds,
                                        !.made = TRUE, !.items = r.items]

\* the closure, up to read_to_string: the entry of the offer is taken out of
\* offers
ReadCallbackTake(offs, offer_clone) ==
    LET i == Position(offs, offer_clone)
    IN  IF i = 0
        THEN [offers |-> offs, token |-> None, panic |-> TRUE]
        ELSE [offers |-> RemoveAt(offs, i), token |-> offs[i].token, panic |-> FALSE]

\* the closure, after read_to_string has returned Ok: remove(token.unwrap()),
\* finish, destroy
ReadCallbackFinish(srcs, offer_clone, token) ==
    IF ~IsSome(token)
    THEN [sources |-> srcs, reqs |-> <<>>, panic |-> TRUE]
    ELSE [sources |-> {s \in srcs : s.token # Unwrap(token)},
          reqs |-> <<Req("finish", WlDataOffer(offer_clone), <<>>),
                     Req("destroy", WlDataOffer(offer_clone), <<>>)>>,
          panic |-> FALSE]

\* the descriptors of the read pipes that leave the event loop and are dropped
Released(srcs, kept) == {ReadFd(s.pipe) : s \in srcs \ kept}

\* wl_data_device.selection
SelectionWithFds(d, id, pipe_ok, close_ok, insert_ok) ==
    /\ ~aborted /\ reading = None /\ d \in Devices
    /\ LET p == Len(pipes) + 1
           lib == SelectionEvent(d, inner[d], id)
           app == AppReceiveWithFds(offers, sources, nextToken, fds, p, id,
                                    pipe_ok, close_ok, insert_ok)
       IN  /\ app.made => Len(pipes) < MaxPipes
           /\ inner' = [inner EXCEPT ![d] = lib.inner]
           /\ offers' = app.offers
           /\ sources' = app.sources
           /\ nextToken' = app.nextToken
           /\ fds' = app.fds
           /\ pipes' = IF app.made
                       THEN Append(pipes, [NewPipe EXCEPT !.peer = "queued",
                                                          !.by = "receive"])
                       ELSE pipes
           /\ Handled(Ev("selection", WlDataDevice(d), <<id>>), lib.reqs, lib.cbs,
                      app.items)
    /\ hist' = [hist EXCEPT ![d].selection = Some(id)]
    /\ UNCHANGED <<reading, mgrVars, srcVars, nextOffer, offerDev, aborted, offered,
                   advertised>>

\* wl_data_device.drop
DropWithFds(d, pipe_ok, close_ok, insert_ok) ==
    /\ ~aborted /\ reading = None /\ d \in Devices
    /\ LET p == Len(pipes) + 1
           lib == DropEvent(d, inner[d])
           app == IF lib.cbs = <<>>
                  THEN [offers |-> offers, sources |-> sources, nextToken |-> nextToken,
                        fds |-> fds, made |-> FALSE, items |-> <<>>]
                  ELSE AppReceiveWithFds(offers, sources, nextToken, fds, p,
                                         Some(lib.cbs[1].args[1]),
                                         pipe_ok, close_ok, insert_ok)
       IN  /\ app.made => Len(pipes) < MaxPipes
           /\ inner' = [inner EXCEPT ![d] = lib.inner]
           /\ offers' = app.offers
           /\ sources' = app.sources
           /\ nextToken' = app.nextToken
           /\ fds' = app.fds
           /\ pipes' = IF app.made
                       THEN Append(pipes, [NewPipe EXCEPT !.peer = "queued",
                                                          !.by = "receive"])
                       ELSE pipes
           /\ Handled(Ev("drop", WlDataDevice(d), <<>>), lib.reqs, lib.cbs, app.items)
    /\ UNCHANGED <<reading, mgrVars, srcVars, nextOffer, offerDev, aborted, hist, offered,
                   advertised>>

\* The event loop finds a registered read pipe ready and runs its closure,
\* which takes the entry of its offer and enters read_to_string.
BeginRead(src) ==
    /\ ~aborted /\ reading = None /\ src \in sources
    /\ Readable(src.pipe)
    /\ LET take == ReadCallbackTake(offers, src.offer)
       IN  /\ offers' = take.offers
           /\ aborted' = take.panic
           /\ reading' = IF take.panic THEN None
                         ELSE Some([pipe |-> src.pipe, offer |-> src.offer,
                                    token |-> take.token])
           /\ Handled(Ev("readable", ReadPipe(src.token), <<>>), <<>>,
                      <<Cb("read", ReadPipe(src.token), <<src.offer>>)>>, <<>>)
    /\ UNCHANGED <<fds, pipes, mgrVars, srcVars, inner, sources, nextToken, nextOffer,
                   offerDev, hist, offered, advertised>>

\* One read of read_to_string: it blocks while nothing is buffered and a
\* write end is open, takes what is buffered, and at end-of-stream returns to
\* the closure, which removes the source of its token and finishes and
\* destroys the offer.  read_ok is whether the read, and at the end the
\* check of the text, succeed.
ReadToString(read_ok) ==
    /\ ~aborted /\ IsSome(reading)
    /\ LET r == Unwrap(reading)
           p == r.pipe
           got == pipes[p].buf
           fin == ReadCallbackFinish(sources, r.offer, r.token)
       IN  /\ pipes[p].buf # <<>> \/ ~WriteEndOpen(p)
           /\ IF ~read_ok
              THEN /\ aborted' = TRUE
                   /\ UNCHANGED <<reading, pipes, sources, fds>>
                   /\ Handled(Call("read", ReadPipe(p), <<>>), <<>>,
                              <<Ret("read", ReadPipe(p), <<"Err", <<>> >>)>>, <<>>)
              ELSE /\ pipes' = [pipes EXCEPT ![p].buf = <<>>,
                                             ![p].observed = @ \o got,
                                             ![p].eof = (got = <<>>)]
                   /\ IF got # <<>>
                      THEN /\ UNCHANGED <<reading, sources, fds, aborted>>
                           /\ Handled(Call("read", ReadPipe(p), <<>>), <<>>,
                                      <<Ret("read", ReadPipe(p), <<"Ok", got>>)>>, <<>>)
                      ELSE /\ reading' = None
                           /\ sources' = fin.sources
                           /\ fds' = fds \ Released(sources, fin.sources)
                           /\ aborted' = fin.panic
                           /\ Handled(Call("read", ReadPipe(p), <<>>), <<>>,
                                      <<Ret("read", ReadPipe(p), <<"Ok", got>>)>>,
                                      fin.reqs)
    /\ UNCHANGED <<mgrVars, srcVars, inner, offers, nextToken, nextOffer, offerDev, hist,
                   offered, advertised>>

NextTransfer ==
    \/ \E d \in Seats : reading = None /\ DataOffer(d)
    \/ \E o \in OfferIds : reading = None /\ OfferMime(o, "text/plain")
    \/ \E d \in Seats, e \in {x \in EnterInputs : x[2] = "S"} :
          \E id \in OptionOf(FreshOn(d)) :
             reading = None /\ Enter(d, e[1], e[2], e[3], e[4], id)
    \/ \E d \in Seats, pipe_ok \in BOOLEAN, close_ok \in BOOLEAN, insert_ok \in BOOLEAN :
            DropWithFds(d, pipe_ok, close_ok, insert_ok)
    \/ \E d \in Seats, pipe_ok \in BOOLEAN, close_ok \in BOOLEAN, insert_ok \in BOOLEAN :
          \E id \in OptionOf(FreshOn(d)) :
             SelectionWithFds(d, id, pipe_ok, close_ok, insert_ok)
    \/ \E p \in 1..MaxPipes : reading = None /\ Flush(p)
    \/ \E p \in 1..MaxPipes : PeerWrite(p, "a")
    \/ \E p \in 1..MaxPipes : PeerClose(p)
    \/ \E src \in sources : BeginRead(src)
    \/ \E read_ok \in BOOLEAN : ReadToString(read_ok)

SpecTransfer == Init /\ [][NextTransfer]_vars

(***************************************************************************)
(* Sources made with any list of mime types, and the action and send       *)
(* events of a source.                                                     *)
(***************************************************************************)
MimeLists == UNION {[1..n -> Mimes] : n \in 0..MaxMimeTypes}

\* a caller calls create_copy_paste_source(qh, mime_types) and keeps the
\* source it gets
CallCreateCopyPasteSourceOf(mime_types) ==
    /\ ~aborted /\ nextSource < MaxSources
    /\ LET id == nextSource + 1
           r == CreateCopyPasteSource(manager, id, mime_types)
       IN  /\ nextSource' = IF r.ok THEN id ELSE nextSource
           /\ copy_paste_sources' = IF r.ok
                                    THEN Append(copy_paste_sources, Unwrap(r.value))
                                    ELSE copy_paste_sources
           /\ refused' = IF r.ok THEN refused
                         ELSE refused \cup {"create_copy_paste_source"}
           /\ Handled(Call("create_copy_paste_source", WlDataDeviceManager,
                           <<mime_types>>),
                      r.reqs,
                      <<Ret("create_copy_paste_source", WlDataDeviceManager,
                            <<Result(r.ok), IF r.ok THEN id ELSE 0>>)>>, <<>>)
    /\ UNCHANGED <<pipeVars, manager, data_devices, seatDevices, devVars, drag_sources,
                   selSerial, aborted>>

\* a caller calls create_drag_and_drop_source(qh, mime_types, dnd_actions) and
\* keeps the source it gets
CallCreateDragAndDropSourceOf(mime_types, dnd_actions) ==
    /\ ~aborted /\ nextSource < MaxSources
    /\ LET id == nextSource + 1
           r == CreateDragAndDropSource(manager, id, mime_types, dnd_actions)
       IN  /\ nextSource' = IF r.ok THEN id ELSE nextSource
           /\ drag_sources' = IF r.ok
                              THEN Append(drag_sources, [source |-> Unwrap(r.value),
                                                         accepted |-> FALSE])
                              ELSE drag_sources
           /\ refused' = IF r.ok THEN refused
                         ELSE refused \cup {"create_drag_and_drop_source"}
           /\ Handled(Call("create_drag_and_drop_source", WlDataDeviceManager,
                           <<mime_types, dnd_actions>>),
                      r.reqs,
                      <<Ret("create_drag_and_drop_source", WlDataDeviceManager,
                            <<Result(r.ok), IF r.ok THEN id ELSE 0>>)>>, <<>>)
    /\ UNCHANGED <<pipeVars, manager, data_devices, seatDevices, devVars,
                   copy_paste_sources, selSerial, aborted>>

\* a caller calls start_drag(device, origin, None, serial) on drag_sources[i]
CallStartDrag(i, d, serial) ==
    /\ ~aborted /\ d \in Devices /\ i \in 1..Len(drag_sources)
    /\ LET src == drag_sources[i].source
       IN  /\ src.inner \in LiveSources
           /\ Handled(Call("start_drag", WlDataSource(src.inner), <<d, serial>>),
                      StartDrag(src, d, "S", serial),
                      <<Ret("start_drag", WlDataSource(src.inner), <<>>)>>, <<>>)
    /\ UNCHANGED <<pipeVars, mgrVars, devVars, srcVars, aborted>>

\* the bits of wl_data_device_manager.dnd_action that the protocol defines
DndActionBits == {"copy", "move", "ask"}
\* the raw values of an action event: sets of bits, one of them undefined
RawActions == {{}, {"copy"}, {"move"}, {"copy", "move"}, {"copy", "bit3"}}
\* WEnum<DndAction> of a raw value: Value for defined bits only, else Unknown
WEnumOf(raw) == [known |-> raw \subseteq DndActionBits, value |-> raw]

\* Dispatch<WlDataSource>::event, Action
SourceActionEvent(source, dnd_action) ==
    [reqs |-> <<>>,
     cbs |-> IF dnd_action.known
             THEN <<Cb("action", WlDataSource(source), <<dnd_action.value>>)>>
             ELSE <<>>]

\* drag_sources.iter_mut().find(|s| s.0.inner() == source), 0 for none
PositionDrag(drs, source) ==
    IF \E i \in 1..Len(drs) : drs[i].source.inner = source
    THEN CHOOSE i \in 1..Len(drs) :
            /\ drs[i].source.inner = source
            /\ \A j \in 1..(i - 1) : drs[j].source.inner # source
    ELSE 0

\* action that sets the flag and never clears it
AppActionSticky(drs, source, action) ==
    LET i == PositionDrag(drs, source)
    IN  IF i # 0
        THEN [drs EXCEPT ![i].accepted = @ \/ ("copy" \in action)]
        ELSE drs

\* DataSourceHandler::action
AppAction(drs, source, action) ==
    LET i == PositionDrag(drs, source)
    IN  IF i # 0
        THEN [drs EXCEPT ![i].accepted = ("copy" \in action)]
        ELSE drs

\* wl_data_source.action with the raw value raw
SourceAction(s, raw) ==
    /\ ~aborted /\ s \in LiveSources
    /\ LET lib == SourceActionEvent(s, WEnumOf(raw))
       IN  /\ drag_sources' = IF lib.cbs # <<>>
                              THEN AppAction(drag_sources, s, lib.cbs[1].args[1])
                              ELSE drag_sources
           /\ Handled(Ev("action", WlDataSource(s), <<raw>>), lib.reqs, lib.cbs, <<>>)
    /\ UNCHANGED <<pipeVars, mgrVars, devVars, copy_paste_sources, nextSource, selSerial,
                   aborted>>

\* Dispatch<WlDataSource>::event, Send
SourceSendEvent(source, mime_type, fd) ==
    [reqs |-> <<>>,
     cbs |-> <<Cb("send", WlDataSource(source), <<mime_type, fd>>)>>]

\* send that keeps the descriptor open when it writes nothing
AppSendLeaks(cps, drs, fdt, source, mime, fd, write_ok, close_ok) ==
    LET copy == \E i \in 1..Len(cps) : cps[i].inner = source /\ mime = "text/plain"
        drag == \E i \in 1..Len(drs) :
                    drs[i].source.inner = source /\ mime = "text/plain" /\ drs[i].accepted
        c == Close(fdt, fd, close_ok)
        text == IF copy THEN "Copied from selection via sctk" ELSE "Dropped via sctk"
    IN  IF copy \/ drag
        THEN [fds |-> c.fds,
              data |-> IF write_ok THEN <<text>> ELSE <<>>,
              items |-> <<Sys("write", fd, <<Result(write_ok), text>>),
                          Sys("close", fd, <<Result(c.ok)>>)>>,
              panic |-> ~write_ok]
        ELSE [fds |-> fdt, data |-> <<>>, items |-> <<>>, panic |-> FALSE]

\* DataSourceHandler::send with the descriptor table fdt.  The File made of
\* fd is closed when it goes out of scope, also when the unwrap of a failed
\* write unwinds; an fd no branch takes is closed when the handler returns.
AppSend(cps, drs, fdt, source, mime, fd, write_ok, close_ok) ==
    LET copy == \E i \in 1..Len(cps) : cps[i].inner = source /\ mime = "text/plain"
        drag == \E i \in 1..Len(drs) :
                    drs[i].source.inner = source /\ mime = "text/plain" /\ drs[i].accepted
        c == Close(fdt, fd, close_ok)
        text == IF copy THEN "Copied from selection via sctk" ELSE "Dropped via sctk"
    IN  IF copy \/ drag
        THEN [fds |-> c.fds,
              data |-> IF write_ok THEN <<text>> ELSE <<>>,
              items |-> <<Sys("write", fd, <<Result(write_ok), text>>),
                          Sys("close", fd, <<Result(c.ok)>>)>>,
              panic |-> ~write_ok]
        ELSE [fds |-> c.fds, data |-> <<>>,
              items |-> <<Sys("close", fd, <<Result(c.ok)>>)>>,
              panic |-> FALSE]

\* wl_data_source.send: the event brings the write end of a pipe the peer made
SourceSend(s, mime_type, write_ok, close_ok) ==
    /\ ~aborted /\ s \in LiveSources
    /\ Len(pipes) < MaxPipes
    /\ LET id == Len(pipes) + 1
           fd == WriteFd(id)
           lib == SourceSendEvent(s, mime_type, fd)
           app == AppSend(copy_paste_sources, drag_sources, fds \cup {fd}, s,
                          mime_type, fd, write_ok, close_ok)
       IN  /\ fds' = app.fds
           /\ pipes' = Append(pipes, [NewPipe EXCEPT !.by = "peer",
                                                     !.written = app.data])
           /\ aborted' = app.panic
           /\ Handled(Ev("send", WlDataSource(s), <<mime_type, fd>>), lib.reqs, lib.cbs,
                      app.items)
    /\ UNCHANGED <<reading, mgrVars, devVars, srcVars>>

NextCreate ==
    \/ \E l \in MimeLists : CallCreateCopyPasteSourceOf(l)
    \/ \E l \in MimeLists : CallCreateDragAndDropSourceOf(l, DndCopy)
    \/ \E i \in 1..MaxSources, d \in Seats : CallSetSelection(i, d, 31)
    \/ \E i \in 1..MaxSources, d \in Seats : CallUnsetSelection(i, d)
    \/ \E i \in 1..MaxSources, d \in Seats : CallStartDrag(i, d, 31)
    \/ \E s \in SourceIds : SourceCancelled(s)
    \/ \E s \in SourceIds : SourceDndFinished(s)

SpecCreate == Init /\ [][NextCreate]_vars

NextSend ==
    \/ \E d \in Seats, serial \in InputSerials : PressKey(d, serial)
    \/ \E d \in Seats, serial \in InputSerials : PointerPress(d, serial)
    \/ \E s \in SourceIds : SourceCancelled(s)
    \/ \E s \in SourceIds : SourceDndFinished(s)
    \/ \E s \in SourceIds, raw \in RawActions : SourceAction(s, raw)
    \/ \E s \in SourceIds, m \in Mimes, write_ok \in BOOLEAN, close_ok \in BOOLEAN :
            SourceSend(s, m, write_ok, close_ok)

SpecSend == Init /\ [][NextSend]_vars

(***************************************************************************)
(* Properties.  In an action formula, log' is the handler of the step:     *)
(* StepIs(op, obj) says the step handles event op arriving on obj.         *)
(***************************************************************************)
LastIs(op, obj) ==
    /\ log # <<>>
    /\ log[1].kind = "event" /\ log[1].op = op /\ log[1].obj = obj
StepIs(op, obj) ==
    /\ log'[1].kind = "event" /\ log'[1].op = op /\ log'[1].obj = obj
\* the places of the log where item it stands
Places(l, it) == {i \in 1..Len(l) : l[i].kind = it.kind /\ l[i].op = it.op
                                     /\ l[i].obj = it.obj /\ l[i].args = it.args}
\* C1: at most one destroy request is ever issued on any one offer, whatever
\* the device events and the application's handling of them.
C1_AtMostOneDestroyPerOffer ==
    \A o \in OfferIds : destroys[o] <= 1

\* C2: once the cancelled event of a copy-paste source has been handled, the
\* source is out of copy_paste_sources and exactly one destroy request has
\* been issued on it, the dispatcher's, the handler's and the drop's counted
\* together.
C2_CancelledDestroysOnce ==
    \A s \in SourceIds :
        (/\ LastIs("cancelled", WlDataSource(s))
         /\ \A i \in 1..Len(drag_sources) : drag_sources[i].source.inner # s)
        => /\ PositionSource(copy_paste_sources, s) = 0
           /\ DestroysIn(log, WlDataSource(s)) = 1
           /\ srcDestroys[s] = 1

\* C3: a leave empties the drag slot and sends one destroy on the offer the
\* slot held, before the leave callback; a motion or drop that arrives after
\* a leave and before the next enter changes nothing of the program's state
\* and runs no callback and sends no request.
C3_LeaveTearsDown ==
    [][\A d \in Seats :
        /\ StepIs("leave", WlDataDevice(d)) =>
            /\ inner'[d].dnd_data_offer = None
            /\ IsSome(HeldDrag(inner[d])) =>
                LET o == Unwrap(HeldDrag(inner[d]))
                IN  /\ DestroysIn(log', WlDataOffer(o)) = 1
                    /\ destroys'[o] = destroys[o] + 1
                    /\ \A i \in Places(log', Req("destroy", WlDataOffer(o), <<>>)),
                          j \in Places(log', Cb("leave", WlDataDevice(d), <<>>)) : i < j
        /\ (hist[d].left /\ (StepIs("motion", WlDataDevice(d))
                             \/ StepIs("drop", WlDataDevice(d)))) =>
            /\ UNCHANGED progVars
            /\ Len(log') = 1
            /\ destroys' = destroys
      ]_vars

\* a motion or drop has arrived after a leave that destroyed the held offer
C3_Witness ==
    \E d \in Seats :
        /\ hist[d].left
        /\ LastIs("motion", WlDataDevice(d)) \/ LastIs("drop", WlDataDevice(d))
        /\ \E o \in AnnouncedOn(d) : destroys[o] = 1

\* C4: when the last selection event named A and a selection event names a
\* different offer B, the handler sends exactly one destroy on A, before the
\* selection callback, and the slot holds B; when the last selection event
\* named B and a selection event names no offer, the handler sends exactly
\* one destroy on B and the slot is empty.
C4_SelectionReplaces ==
    [][\A d \in Seats : \A a \in OfferIds :
        (hist[d].selection = Some(Some(a)) /\ StepIs("selection", WlDataDevice(d))
            /\ log'[1].args # <<Some(a)>>) =>
            /\ inner'[d].selection = log'[1].args[1]
            /\ DestroysIn(log', WlDataOffer(a)) = 1
            /\ destroys'[a] = destroys[a] + 1
            /\ \A i \in Places(log', Req("destroy", WlDataOffer(a), <<>>)),
                  j \in Places(log', Cb("selection", WlDataDevice(d), log'[1].args)) :
                    i < j
            /\ Places(log', Cb("selection", WlDataDevice(d), log'[1].args)) # {}
      ]_vars

\* selection(A), selection(B), selection(None) have arrived in this order
\* and both offers have their destroy
C4_Witness ==
    \E d \in Seats :
        /\ LastIs("selection", WlDataDevice(d)) /\ log[1].args = <<None>>
        /\ inner[d].selection = None
        /\ \E a, b \in AnnouncedOn(d) : a # b /\ destroys[a] = 1 /\ destroys[b] = 1
        /\ Len(offers) = 2 /\ sources = {}

\* C5: the slot is empty after every selection event that names no offer,
\* and when the last selection event named no offer, a further one sends no
\* destroy on any offer.
C5_ClearIdempotent ==
    [][\A d \in Seats :
        /\ (StepIs("selection", WlDataDevice(d)) /\ log'[1].args = <<None>>) =>
            inner'[d].selection = None
        /\ (hist[d].selection = Some(None) /\ StepIs("selection", WlDataDevice(d))
                /\ log'[1].args = <<None>>) =>
            /\ \A o \in OfferIds : DestroysIn(log', WlDataOffer(o)) = 0
            /\ destroys' = destroys
      ]_vars

\* two selection events without an offer in a row, after an offer was held
C5_Witness ==
    \E d \in Seats :
        /\ hist[d].selection = Some(None)
        /\ LastIs("selection", WlDataDevice(d))
        /\ DestroysIn(log, WlDataOffer(1)) = 0
        /\ destroys[1] = 1
        /\ inner[d].selection = None

\* C6: a drop that arrives after an enter with an offer and no motion since
\* runs drop_performed once, with the offer, serial, surface, x and y of
\* that enter and no timestamp, whatever happened before the enter.
C6_DropAfterEnter ==
    \A d \in Seats :
        (/\ LastIs("drop", WlDataDevice(d))
         /\ IsSome(hist[d].enter)
         /\ IsSome(Unwrap(hist[d].enter).id)
         /\ hist[d].motion = None)
        => LET e == Unwrap(hist[d].enter)
               cbs == Callbacks(log)
           IN  /\ Len(cbs) = 1
               /\ cbs[1].op = "drop_performed"
               /\ cbs[1].obj = WlDataDevice(d)
               /\ cbs[1].args = <<Unwrap(e.id), e.serial, e.surface, e.x, e.y, None>>

\* such a drop, of the offer announced second
C6_Witness ==
    \E d \in Seats :
        /\ LastIs("drop", WlDataDevice(d))
        /\ IsSome(hist[d].enter)
        /\ Unwrap(hist[d].enter).id = Some(2)
        /\ hist[d].motion = None
        /\ destroys[1] = 1

\* C7: when an enter names an offer that has had two offer events, the mime
\* types the application holds for it are those of the two events, in order.
C7_MimesInOrder ==
    \A d \in Seats : \A o \in OfferIds :
        (/\ LastIs("enter", WlDataDevice(d))
         /\ log[1].args[5] = Some(o)
         /\ Len(offered[o]) = 2)
        => /\ Position(offers, o) # 0
           /\ offers[Position(offers, o)].mime_types = offered[o]

\* C8: a motion that finds no drag state, or a state without an offer,
\* changes nothing of the program's state and runs no callback.
C8_MotionNeedsOffer ==
    [][\A d \in Seats :
        (StepIs("motion", WlDataDevice(d)) /\ ~IsSome(HeldDrag(inner[d]))) =>
            /\ UNCHANGED progVars
            /\ Len(log') = 1
      ]_vars

\* C9: a drop that finds no drag state, or a state without an offer, runs no
\* callback, sends no request, changes nothing of the program's state and
\* does not end the session.
C9_DropNeedsOffer ==
    [][\A d \in Seats :
        (StepIs("drop", WlDataDevice(d)) /\ ~IsSome(HeldDrag(inner[d]))) =>
            /\ UNCHANGED progVars
            /\ Len(log') = 1
            /\ destroys' = destroys
            /\ ~aborted'
      ]_vars

\* a drop has arrived on the state of an enter without an offer
C9_Witness ==
    \E d \in Seats :
        /\ LastIs("drop", WlDataDevice(d))
        /\ IsSome(inner[d].dnd_data_offer)
        /\ ~IsSome(HeldDrag(inner[d]))
        /\ Len(log) = 1

\* C10: the data_offer callback of a device gets the number of data_offer
\* events the device has had before as its serial, the counter is that
\* number after every step, one more after a data_offer of the device and
\* unchanged after any other event.
C10_SerialCounts ==
    [][\A d \in Seats :
        /\ inner'[d].serial = Cardinality({o \in 1..nextOffer' : offerDev'[o] = d})
        /\ IF StepIs("data_offer", WlDataDevice(d))
           THEN /\ inner'[d].serial = inner[d].serial + 1
                /\ Callbacks(log') =
                     <<Cb("data_offer", WlDataDevice(d),
                          <<log'[1].args[1], Cardinality(AnnouncedOn(d))>>)>>
           ELSE inner'[d].serial = inner[d].serial
      ]_vars

\* the second data_offer of a device has been reported
C10_Witness ==
    \E d \in Seats :
        /\ LastIs("data_offer", WlDataDevice(d))
        /\ Callbacks(log) = <<Cb("data_offer", WlDataDevice(d), <<2, 1>>)>>
        /\ inner[d].serial = 2

\* C11: every accept request the client sends on an offer carries the serial
\* of the enter event that brought that offer into the drag of its device,
\* never the serial the data_offer counter gave it.
C11_AcceptCarriesEnterSerial ==
    \A i \in 1..Len(log) :
        (log[i].kind = "request" /\ log[i].op = "accept") =>
            LET o == log[i].obj[2]
                d == offerDev[o]
            IN  /\ IsSome(hist[d].enter)
                /\ Unwrap(hist[d].enter).id = Some(o)
                /\ log[i].args[1] = Unwrap(hist[d].enter).serial

\* C12: however often get_data_device is called for a seat, at most one
\* get_data_device request is sent for the seat and at most one
\* wl_data_device object exists for it.
C12_OneDevicePerSeat ==
    \A seat \in Seats : seatDevices[seat] <= 1

\* C13: a call of create_copy_paste_source, create_drag_and_drop_source,
\* create_data_source_with_data or get_data_device made while the manager is
\* not bound returns Err, sends no request, creates no source and no device
\* and does not panic; made once ready has bound the manager it returns Ok
\* and its first request creates the object.
C13_NotReadyIsAnError ==
    [][log'[1].kind = "call" =>
        LET ret == log'[Len(log')]
        IN  /\ ret.kind = "return" /\ ret.op = log'[1].op
            /\ ~aborted'
            /\ IF manager # "Bound"
               THEN /\ ret.args[1] = "Err"
                    /\ Len(log') = 2
                    /\ UNCHANGED <<nextSource, seatDevices, data_devices,
                                   copy_paste_sources, drag_sources>>
               ELSE /\ ret.args[1] = "Ok"
                    /\ Len(log') > 2
                    /\ log'[2].kind = "request"
                    /\ log'[2].obj = WlDataDeviceManager
                    /\ log'[2].op = IF log'[1].op = "get_data_device"
                                    THEN "get_data_device"
                                    ELSE "create_data_source"
                    /\ IF log'[1].op = "get_data_device"
                       THEN \E seat \in Seats :
                               seatDevices' = [seatDevices EXCEPT ![seat] = @ + 1]
                       ELSE nextSource' = nextSource + 1
      ]_vars

\* each of the four operations has returned Err before the manager was
\* bound, and a call made after ready has returned Ok
C13_Witness ==
    /\ refused = {"create_copy_paste_source", "create_drag_and_drop_source",
                  "create_data_source_with_data", "get_data_device"}
    /\ manager = "Bound"
    /\ log # <<>> /\ log[1].kind = "call"
    /\ log[Len(log)].args[1] = "Ok"

\* the system calls of a handler, and its close calls on a descriptor
Syscalls(l) == SelectSeq(l, LAMBDA it : it.kind = "syscall")
ClosesIn(l, fd) ==
    Cardinality({i \in 1..Len(l) : l[i].kind = "syscall" /\ l[i].op = "close"
                                   /\ l[i].obj = fd})

\* C14: a receive whose pipe2 fails returns Err, sends no request, opens no
\* descriptor and changes nothing of the program's state; a receive whose
\* pipe2 succeeds returns Ok, whether or not an earlier receive failed.
C14_ReceiveFailureIsLocal ==
    [][(log'[1].kind = "call" /\ log'[1].op = "receive") =>
        LET ret == log'[Len(log')]
        IN  IF log'[2].args = <<"Err">>
            THEN /\ ret.kind = "return" /\ ret.args[1] = "Err"
                 /\ Requests(log') = <<>>
                 /\ Len(Syscalls(log')) = 1
                 /\ fds' = fds /\ pipes' = pipes
                 /\ UNCHANGED progVars
                 /\ destroys' = destroys
            ELSE /\ ret.kind = "return" /\ ret.args[1] = "Ok"
                 /\ Len(Requests(log')) = 1
                 /\ ~aborted'
      ]_vars

\* a receive has returned Ok after an earlier receive returned Err
C14_Witness ==
    /\ "receive" \in refused
    /\ log # <<>> /\ log[1].kind = "call" /\ log[1].op = "receive"
    /\ log[Len(log)].args[1] = "Ok"

\* C15: a receive whose pipe2 succeeds does exactly this, in order: the
\* receive request carrying the write end, one close of the write end, the
\* return of Ok with the read end, also when the close reports an error;
\* receive_to_fd sends one receive request carrying the descriptor it was
\* given and closes that descriptor once.  After every step the client holds
\* no write end that has gone out with a receive request.
C15_WriteEndClosedOnce ==
    [][/\ (log'[1].kind = "call" /\ log'[1].op = "receive" /\ log'[2].args = <<"Ok">>) =>
            LET id == Len(pipes')
                ret == log'[Len(log')]
            IN  /\ Len(log') = 5
                /\ log'[3] = Req("receive", log'[1].obj, <<log'[1].args[1], WriteFd(id)>>)
                /\ log'[4].kind = "syscall" /\ log'[4].op = "close"
                /\ log'[4].obj = WriteFd(id)
                /\ ClosesIn(log', WriteFd(id)) = 1
                /\ Len(Requests(log')) = 1
                /\ ret.kind = "return" /\ ret.args = <<"Ok", ReadFd(id)>>
                /\ ReadFd(id) \in fds' /\ WriteFd(id) \notin fds'
       /\ (log'[1].kind = "call" /\ log'[1].op = "receive_to_fd") =>
            LET writefd == log'[1].args[2]
            IN  /\ Len(log') = 4
                /\ log'[2] = Req("receive", log'[1].obj, <<log'[1].args[1], writefd>>)
                /\ log'[3].kind = "syscall" /\ log'[3].op = "close"
                /\ log'[3].obj = writefd
                /\ ClosesIn(log', writefd) = 1
                /\ writefd \in fds /\ writefd \notin fds'
       /\ \A p \in 1..Len(pipes') : pipes'[p].peer # "none" => WriteFd(p) \notin fds'
      ]_vars

\* a receive has returned Ok although its close reported an error, and a
\* receive_to_fd has closed the descriptor of the other pipe
C15_Witness ==
    /\ log # <<>> /\ log[1].kind = "call" /\ log[1].op = "receive"
    /\ Len(log) = 5 /\ log[4].args = <<"Err">> /\ log[5].args[1] = "Ok"
    /\ \E p \in 1..Len(pipes) : pipes[p].by = "caller" /\ pipes[p].peer # "none"
    /\ \A p \in 1..Len(pipes) : WriteFd(p) \notin fds

C17_NoRequestAfterDestroy ==
    \A o \in OfferIds : \A i \in 1..Len(log) :
        (log[i].kind = "request" /\ log[i].obj = WlDataOffer(o)) =>
            /\ destroys[o] = DestroysIn(log, WlDataOffer(o))
            /\ \A j \in 1..(i - 1) : ~IsDestroyOf(WlDataOffer(o), log[j])

\* C18: unset_selection on a source sends set_selection(None, s) on the
\* device, s being the serial of the last set_selection made with the
\* source, and sends nothing when no set_selection was made with it.
C18_UnsetUsesRecordedSerial ==
    [][(log'[1].kind = "call" /\ log'[1].op = "unset_selection") =>
        LET s == log'[1].obj[2]
            d == log'[1].args[1]
        IN  Requests(log') =
                IF IsSome(selSerial[s])
                THEN <<Req("set_selection", WlDataDevice(d), <<None, Unwrap(selSerial[s])>>)>>
                ELSE <<>>
      ]_vars

\* C19: the destination supports copy only.  When an offer's source has
\* advertised copy and move, the set_actions request the destination answers
\* with prefers copy; when the source's actions have none in common with
\* copy, the destination sends no accept and no receive on the offer.
C19_NegotiatedAction ==
    \A o \in OfferIds :
        (IsSome(advertised[o]) /\ IsSome(Unwrap(advertised[o]))) =>
            LET source_actions == Unwrap(Unwrap(advertised[o]))
            IN  /\ (LastIs("source_actions", WlDataOffer(o))
                        /\ source_actions = {"copy", "move"}) =>
                    /\ Len(Requests(log)) = 1
                    /\ Requests(log)[1].op = "set_actions"
                    /\ Requests(log)[1].args[2] = {"copy"}
                /\ source_actions \cap DndCopy = {} =>
                    \A i \in 1..Len(log) :
                        (log[i].kind = "request" /\ log[i].obj = WlDataOffer(o)) =>
                            log[i].op \notin {"accept", "receive"}

\* C20: no sequence of events makes the client abort.
C20_NeverAborts == ~aborted

\* C21: once a drop has run drop_performed for the offer the drag slot holds
\* and the offer has not been destroyed since, a motion event changes nothing
\* of the device's drag state (position and timestamp stay) and runs no
\* motion callback.
C21_ReadOnlyAfterDrop ==
    [][\A d \in Seats :
        (/\ LastIs("drop", WlDataDevice(d))
         /\ Callbacks(log) # <<>>
         /\ IsSome(HeldDrag(inner[d]))
         /\ destroys[Unwrap(HeldDrag(inner[d]))] = 0
         /\ StepIs("motion", WlDataDevice(d)))
        => /\ inner'[d].dnd_data_offer = inner[d].dnd_data_offer
           /\ Callbacks(log') = <<>>
      ]_vars

\* C22: when the read callback of a transfer has sent finish on an offer, no
\* device holds that offer in its drag slot any more, so that a later enter
\* or leave finds nothing of it to release.
C22_IdleAfterFinish ==
    \A o \in OfferIds :
        (/\ LastIs("readable", log[1].obj)
         /\ Places(log, Req("finish", WlDataOffer(o), <<>>)) # {})
        => \A d \in Seats : HeldDrag(inner[d]) # Some(o)

\* C23: handling dnd_finished or cancelled of a source that is in
\* drag_sources takes it out of drag_sources, and the destroy requests
\* issued on the source so far, the drop of the removed DragSource value
\* included, are exactly one.
C23_DragSourceReleasedOnce ==
    [][\A s \in SourceIds :
        (/\ StepIs("dnd_finished", WlDataSource(s)) \/ StepIs("cancelled", WlDataSource(s))
         /\ \E i \in 1..Len(drag_sources) : drag_sources[i].source.inner = s)
        => /\ \A i \in 1..Len(drag_sources') : drag_sources'[i].source.inner # s
           /\ srcDestroys'[s] = 1
      ]_vars

\* C24: whenever the dispatch thread is inside a read of a transfer's pipe,
\* the receive request that carries the pipe's write end has left the
\* outgoing queue; so the thread never waits for bytes of a peer that is
\* still to get the write end.
C24_NoReadBeforeFlush ==
    IsSome(reading) => pipes[Unwrap(reading).pipe].peer # "queued"

\* the dispatch thread is blocked in read_to_string after it has read a
\* byte: the peer holds the write end and has written nothing more
C24_Witness ==
    /\ IsSome(reading)
    /\ pipes[Unwrap(reading).pipe].peer = "open"
    /\ pipes[Unwrap(reading).pipe].buf = <<>>
    /\ pipes[Unwrap(reading).pipe].observed # <<>>
    /\ ~aborted

\* C25: a read pipe registered with the event loop leaves it only in the
\* step in which the read of that pipe returns end-of-stream, and its
\* descriptor is open until that step and closed by it; a registered pipe
\* whose end-of-stream has been read is registered no longer.
C25_RegisteredUntilEof ==
    [][\A s \in sources :
        /\ s \notin sources' =>
              /\ ~pipes[s.pipe].eof /\ pipes'[s.pipe].eof
              /\ ReadFd(s.pipe) \in fds /\ ReadFd(s.pipe) \notin fds'
        /\ s \in sources' => ~pipes'[s.pipe].eof
      ]_vars

\* C26: in the handling of a cancelled event, every destroy request on the
\* source comes after the cancelled callback, which is what removes the
\* source's entry from the application's registry.
C26_EntryRemovedBeforeDestroy ==
    \A s \in SourceIds :
        LastIs("cancelled", WlDataSource(s)) =>
            /\ Places(log, Cb("cancelled", WlDataSource(s), <<>>)) # {}
            /\ \A i \in Places(log, Req("destroy", WlDataSource(s), <<>>)),
                  j \in Places(log, Cb("cancelled", WlDataSource(s), <<>>)) : j < i

\* C27: a source in copy_paste_sources has no destroy request on it, and
\* every step other than its own cancelled event leaves it in
\* copy_paste_sources with no destroy request, a key press that sets the
\* selection from a new source included; its own cancelled event takes it
\* out of copy_paste_sources.
C27_SupersededSourceKept ==
    [][\A s \in SourceIds :
        PositionSource(copy_paste_sources, s) # 0 =>
            /\ srcDestroys[s] = 0
            /\ IF StepIs("cancelled", WlDataSource(s))
               THEN PositionSource(copy_paste_sources', s) = 0
               ELSE /\ PositionSource(copy_paste_sources', s) # 0
                    /\ DestroysIn(log', WlDataSource(s)) = 0
                    /\ srcDestroys'[s] = 0
      ]_vars

\* source 1 was superseded by source 2 and then by source 3, and its
\* cancelled event has now removed it; sources 2 and 3 are kept, undestroyed
C27_Witness ==
    /\ LastIs("cancelled", WlDataSource(1))
    /\ Len(copy_paste_sources) = 2
    /\ copy_paste_sources[1].inner = 2 /\ copy_paste_sources[2].inner = 3
    /\ IsSome(selSerial[3])
    /\ srcDestroys[1] > 0 /\ srcDestroys[2] = 0 /\ srcDestroys[3] = 0

\* C28: an enter event that finds a drag state in the slot sends exactly one
\* destroy on the offer that state holds, if it holds one, before the enter
\* callback, sends no destroy when it holds none, and leaves in the slot
\* the offer, serial, surface and position of the new enter and no
\* timestamp.
C28_EnterReplaces ==
    [][\A d \in Seats :
        (StepIs("enter", WlDataDevice(d)) /\ IsSome(inner[d].dnd_data_offer)) =>
            LET a == log'[1].args
                cb == Places(log', Cb("enter", WlDataDevice(d), a))
            IN  /\ inner'[d].dnd_data_offer =
                      Some(DnDDataOffer(a[5], a[1], a[2], a[3], a[4], None))
                /\ cb # {}
                /\ \A o \in OfferIds :
                      IF HeldDrag(inner[d]) = Some(o)
                      THEN /\ DestroysIn(log', WlDataOffer(o)) = 1
                           /\ destroys'[o] = destroys[o] + 1
                           /\ \A i \in Places(log', Req("destroy", WlDataOffer(o), <<>>)),
                                 j \in cb : i < j
                      ELSE DestroysIn(log', WlDataOffer(o)) = 0
      ]_vars

\* an enter with the second offer has replaced the state that held the
\* first, and the first has got its one destroy
C28_Witness ==
    \E d \in Seats :
        /\ LastIs("enter", WlDataDevice(d))
        /\ log[1].args[5] = Some(2)
        /\ HeldDrag(inner[d]) = Some(2)
        /\ Unwrap(inner[d].dnd_data_offer).time = None
        /\ DestroysIn(log, WlDataOffer(1)) = 1
        /\ destroys[1] = 1

C30_RegistryHoldsLiveOffers ==
    \A i \in 1..Len(offers) : destroys[offers[i].offer] = 0

C32_MotionAndDropKeepState ==
    [][\A d \in Seats :
        /\ (StepIs("motion", WlDataDevice(d)) /\ IsSome(inner[d].dnd_data_offer)) =>
            /\ IsSome(inner'[d].dnd_data_offer)
            /\ Unwrap(inner'[d].dnd_data_offer).data_offer
                   = Unwrap(inner[d].dnd_data_offer).data_offer
            /\ Unwrap(inner'[d].dnd_data_offer).serial
                   = Unwrap(inner[d].dnd_data_offer).serial
            /\ Unwrap(inner'[d].dnd_data_offer).surface
                   = Unwrap(inner[d].dnd_data_offer).surface
        /\ StepIs("drop", WlDataDevice(d)) =>
            /\ inner' = inner
            /\ (LastIs("drop", WlDataDevice(d)) /\ Callbacks(log) # <<>>) =>
                 /\ Len(Callbacks(log')) = 1
                 /\ Callbacks(log')[1].op = "drop_performed"
                 /\ Callbacks(log')[1].args = Callbacks(log)[1].args
      ]_vars

\* a drop has run drop_performed on a state that a motion had given a
\* timestamp, for an offer that has two transfers registered
C32_Witness ==
    \E d \in Seats : \E o \in OfferIds :
        /\ LastIs("drop", WlDataDevice(d))
        /\ Callbacks(log) # <<>>
        /\ Callbacks(log)[1].args[1] = o
        /\ Callbacks(log)[1].args[6] # None
        /\ HeldDrag(inner[d]) = Some(o)
        /\ Cardinality({s \in sources : s.offer = o}) = 2

\* C33: a drop that arrives after an enter with an offer and at least one
\* motion since runs drop_performed once, with the offer, serial and surface
\* of that enter and the x, y and time of the last motion; every motion
\* that arrives after an enter with an offer runs the motion callback once,
\* with its own time, x and y and the offer of the enter.
C33_DropAfterMotion ==
    \A d \in Seats :
        (IsSome(hist[d].enter) /\ IsSome(Unwrap(hist[d].enter).id)
            /\ IsSome(hist[d].motion)) =>
            LET e == Unwrap(hist[d].enter)
                m == Unwrap(hist[d].motion)
                cbs == Callbacks(log)
            IN  /\ LastIs("drop", WlDataDevice(d)) =>
                    /\ Len(cbs) = 1
                    /\ cbs[1].op = "drop_performed"
                    /\ cbs[1].obj = WlDataDevice(d)
                    /\ cbs[1].args = <<Unwrap(e.id), e.serial, e.surface, m[2], m[3],
                                       Some(m[1])>>
                /\ LastIs("motion", WlDataDevice(d)) =>
                    /\ log[1].args = m
                    /\ Len(cbs) = 1
                    /\ cbs[1].op = "motion"
                    /\ cbs[1].obj = WlDataDevice(d)
                    /\ cbs[1].args = <<m[1], m[2], m[3], Unwrap(e.id)>>

\* a drop has handed over the position and time of the second of two
\* different motions that followed an enter with an offer
C33_Witness ==
    \E d \in Seats :
        /\ LastIs("drop", WlDataDevice(d))
        /\ IsSome(hist[d].enter) /\ IsSome(Unwrap(hist[d].enter).id)
        /\ hist[d].motion = Some(<<22, 7, 8>>)
        /\ Callbacks(log) # <<>>
        /\ Callbacks(log)[1].args[6] = Some(22)

\* C34: a call that creates a source with the mime-type list L sends, after
\* the create_data_source request, on the new source one offer request per
\* element of L, in L's order and with its duplicates, then one set_actions
\* request with the given actions if it makes a drag source and none if it
\* makes a copy-paste source, and nothing else; no other step sends an offer
\* request on any source.
C34_OffersAtCreation ==
    [][\A s \in SourceIds :
          LET creates == /\ log'[1].kind = "call"
                         /\ log'[1].op \in {"create_copy_paste_source",
                                            "create_drag_and_drop_source"}
                         /\ nextSource = s - 1 /\ nextSource' = s
              drag == log'[1].op = "create_drag_and_drop_source"
              L == log'[1].args[1]
              rs == Requests(log')
          IN  /\ creates =>
                    /\ Len(rs) = 1 + Len(L) + (IF drag THEN 1 ELSE 0)
                    /\ rs[1].op = "create_data_source"
                    /\ \A k \in 1..Len(L) :
                          /\ rs[1 + k].op = "offer"
                          /\ rs[1 + k].obj = WlDataSource(s)
                          /\ rs[1 + k].args = <<L[k]>>
                    /\ drag => /\ rs[Len(rs)].op = "set_actions"
                               /\ rs[Len(rs)].obj = WlDataSource(s)
                               /\ rs[Len(rs)].args = <<log'[1].args[2]>>
                    /\ srcOffers'[s] = L
              /\ srcOffers'[s] # srcOffers[s] => creates]_vars

\* a drag source has just been created with a list that names one mime type
\* twice, after a request was sent for an earlier source
C34_Witness ==
    /\ log # <<>>
    /\ log[1].op = "create_drag_and_drop_source"
    /\ log[1].args[1] = <<"text/plain", "text/plain">>
    /\ nextSource = 2
    /\ srcOffers[2] = <<"text/plain", "text/plain">>
    /\ srcDestroys[1] > 0

\* C35: an action event with a known value a on a source leaves the
\* accepted flag of the drag source it names equal to (copy is in a), so an
\* action without copy clears a flag that was set; an action event with an
\* unknown raw value runs no callback and changes no flag; an action event
\* never changes the flag of any other source, nor the list of sources.
C35_AcceptedFollowsAction ==
    [][\A s \in SourceIds :
          StepIs("action", WlDataSource(s)) =>
              LET raw == log'[1].args[1]
                  known == raw \subseteq DndActionBits
              IN  /\ Len(drag_sources') = Len(drag_sources)
                  /\ \A i \in 1..Len(drag_sources) :
                        /\ drag_sources'[i].source = drag_sources[i].source
                        /\ drag_sources'[i].accepted =
                              IF known /\ drag_sources[i].source.inner = s
                              THEN "copy" \in raw
                              ELSE drag_sources[i].accepted
                  /\ Len(Callbacks(log')) = IF known THEN 1 ELSE 0
                  /\ known => /\ Callbacks(log')[1].op = "action"
                              /\ Callbacks(log')[1].obj = WlDataSource(s)
                              /\ Callbacks(log')[1].args = <<raw>>]_vars

\* an action without copy has just been handled for the second of two drag
\* sources, whose flag is clear, while the flag of the first is set
C35_Witness ==
    /\ Len(drag_sources) = 2
    /\ LastIs("action", WlDataSource(drag_sources[2].source.inner))
    /\ log[1].args[1] = {"move"}
    /\ drag_sources[1].accepted /\ ~drag_sources[2].accepted

\* C36: when the handler of a send event has ended, the descriptor the event
\* brought has been closed exactly once and is open no more, whether or not
\* anything was written; a write happened only if the source is a registered
\* copy-paste source, or a registered drag source whose accepted flag is set,
\* and the mime type asked for is one that was offered on the source; in
\* every other case nothing was written and the pipe got no data.
C36_SendClosesOnce ==
    \A s \in SourceIds :
        LastIs("send", WlDataSource(s)) =>
            LET mime == log[1].args[1]
                fd == log[1].args[2]
                closes == {i \in 1..Len(log) : /\ log[i].kind = "syscall"
                                               /\ log[i].op = "close"
                                               /\ log[i].obj = fd}
                writes == {i \in 1..Len(log) : /\ log[i].kind = "syscall"
                                               /\ log[i].op = "write"}
                copy == \E i \in 1..Len(copy_paste_sources) :
                            copy_paste_sources[i].inner = s
                drag == \E i \in 1..Len(drag_sources) :
                            /\ drag_sources[i].source.inner = s
                            /\ drag_sources[i].accepted
                may == (copy \/ drag) /\ mime \in Range(srcOffers[s])
            IN  /\ Cardinality(closes) = 1
                /\ fd \notin fds
                /\ writes # {} => may
                /\ \A i \in writes : log[i].obj = fd /\ i < CHOOSE j \in closes : TRUE
                /\ ~may => pipes[fd[1]].written = <<>>
                /\ pipes[fd[1]].written # <<>> => writes # {}

\* a send for a drag source whose flag is set has written its data, after a
\* send that got an empty transfer
C36_Witness ==
    /\ Len(pipes) = 2
    /\ pipes[1].written = <<>>
    /\ pipes[2].written = <<"Dropped via sctk">>
    /\ \E s \in SourceIds : LastIs("send", WlDataSource(s))
    /\ WriteFd(1) \notin fds /\ WriteFd(2) \notin fds

\* C37: no device holds, in its drag slot or in its selection slot, an offer
\* on which a destroy request has been issued.
C37_SlotsHoldNoDestroyedOffer ==
    \A d \in Seats :
        /\ IsSome(HeldDrag(inner[d])) => destroys[Unwrap(HeldDrag(inner[d]))] = 0
        /\ IsSome(inner[d].selection) => destroys[Unwrap(inner[d].selection)] = 0

\* C38: the handler of a data_offer, enter, leave or selection event runs
\* the callback of that event exactly once, whatever the state was, and after
\* the state was updated: the destroy of an offer the event displaces from
\* its slot is sent before the callback runs.  The handler of a motion or
\* drop event runs its callback exactly once if the drag slot holds an offer
\* and runs none otherwise.
C38_CallbackDelivery ==
    [][\A d \in Seats :
          LET cbs == Callbacks(log')
              once(op) == /\ Len(cbs) = 1
                          /\ cbs[1].op = op
                          /\ cbs[1].obj = WlDataDevice(d)
              before(o) == \E i \in Places(log', Req("destroy", WlDataOffer(o), <<>>)) :
                              \E j \in 1..Len(log') : /\ log'[j].kind = "callback"
                                                      /\ i < j
              held == HeldDrag(inner[d])
          IN  /\ StepIs("data_offer", WlDataDevice(d)) =>
                    /\ once("data_offer")
                    /\ inner'[d].serial = WrapU32(cbs[1].args[2] + 1)
              /\ StepIs("enter", WlDataDevice(d)) =>
                    /\ once("enter")
                    /\ IsSome(held) => before(Unwrap(held))
                    /\ HeldDrag(inner'[d]) = log'[1].args[5]
              /\ StepIs("leave", WlDataDevice(d)) =>
                    /\ once("leave")
                    /\ IsSome(held) => before(Unwrap(held))
                    /\ inner'[d].dnd_data_offer = None
              /\ StepIs("selection", WlDataDevice(d)) =>
                    /\ once("selection")
                    /\ IsSome(inner[d].selection) => before(Unwrap(inner[d].selection))
                    /\ inner'[d].selection = log'[1].args[1]
              /\ StepIs("motion", WlDataDevice(d)) =>
                    IF IsSome(held) THEN once("motion") ELSE cbs = <<>>
              /\ StepIs("drop", WlDataDevice(d)) =>
                    IF IsSome(held) THEN once("drop_performed") ELSE cbs = <<>>]_vars

\* a selection event without an offer has run its callback on a device whose
\* selection slot was empty: no offer has been announced yet
C38_Witness ==
    \E d \in Seats :
        /\ LastIs("selection", WlDataDevice(d))
        /\ log[1].args[1] = None
        /\ nextOffer = 0
        /\ Requests(log) = <<>>
        /\ Len(Callbacks(log)) = 1
        /\ Callbacks(log)[1].op = "selection"
        /\ inner[d].selection = None

\* C39: an event on the data device of one seat leaves the drag state, the
\* selection slot and the serial counter of every other device as they were,
\* and every destroy its handler sends is on an offer that this device held
\* in one of its slots; the serial a data_offer callback gets is the number
\* of offers announced on that same device before, so the counters of two
\* devices both start at 0 and count apart.
C39_DevicesIsolated ==
    [][\A d \in Seats :
          (log'[1].kind = "event" /\ log'[1].obj = WlDataDevice(d)) =>
              /\ \A e \in Seats \ {d} : inner'[e] = inner[e]
              /\ \A o \in OfferIds :
                    DestroysIn(log', WlDataOffer(o)) > 0 =>
                        /\ offerDev[o] = d
                        /\ HeldDrag(inner[d]) = Some(o) \/ inner[d].selection = Some(o)
              /\ log'[1].op = "data_offer" =>
                    /\ Callbacks(log')[1].args[2] = Cardinality(AnnouncedOn(d))
                    /\ inner'[d].serial = Cardinality(AnnouncedOn(d)) + 1]_vars

\* each of two devices has announced one offer under the local serial 0 and
\* holds it, the first in its selection slot, the second in the drag slot
\* that an enter has just filled
C39_Witness ==
    /\ inner[1].serial = 1 /\ inner[2].serial = 1
    /\ inner[1].selection = Some(1)
    /\ HeldDrag(inner[2]) = Some(2)
    /\ LastIs("enter", WlDataDevice(2))
    /\ offerDev[1] = 1 /\ offerDev[2] = 2

\* C40: the handler of a data_offer event hands the callback the counter's
\* value and leaves the counter one higher, as long as the value was below
\* the largest the counter's width holds; at the largest value too the
\* handler runs its callback and the client does not abort.
C40_SerialCounts ==
    [][\A d \in Seats :
          StepIs("data_offer", WlDataDevice(d)) =>
              /\ ~aborted'
              /\ Len(Callbacks(log')) = 1
              /\ Callbacks(log')[1].args[2] = inner[d].serial
              /\ inner[d].serial < 2 ^ SerialBits - 1 =>
                    inner'[d].serial = inner[d].serial + 1]_vars

====
